---- MODULE Spec2Model ----
(***************************************************************************)
(* A model of the PL/0 pipeline of Py-PL0-Interpreter: the AST data model  *)
(* (ast_node.py), the intermediate code generator (icg.py), the stack VM   *)
(* (ic_interpreter.py), the symbol table (symboltable.py) and the tree     *)
(* walking interpreter (ast_interpreter.py).                               *)
(*                                                                         *)
(* Python values are modelled as follows.  None, an int and a Procedure    *)
(* object are the three kinds of value a Symbol can hold; a value is the   *)
(* record [vk, value, proc] with vk in {"none", "int", "proc"}.  A raised  *)
(* exception is a status string naming the exception class and its raise   *)
(* site.  Instruction indices are 0-based as in the source; TLA+ sequences *)
(* are 1-based, so ic[pc + 1] is the source's ic[pc].                      *)
(***************************************************************************)
EXTENDS Integers, Sequences, FiniteSets, TLC

VARIABLES ast, icg, vm, interp, input, frames, lx, calls

vars == <<ast, icg, vm, interp, input, frames, lx, calls>>

(***************************************************************************)
(* Bounds of the model.                                                    *)
(***************************************************************************)
\* integers typed at an INPUT / Read are drawn from -MaxInput .. MaxInput
MaxInput == 3
\* at most this many integers are read from the input channel in one run
MaxReads == 2
\* CALL / interpret_call is not taken beyond this many stacked environments
MaxEnvDepth == 8
\* a run of the lexer makes at most this many calls of peek()
MaxPeeks == 2
\* next() is called until it has returned EndOfInput this many times
MaxEof == 2
\* at most this many calls of generate() are made on the ICG instances of one AST
MaxGenerate == 2

InputVals == (0 - MaxInput) .. MaxInput

\* Let([name \in {value} |-> e]) is e with name standing for value: a local
\* variable of a method, assigned the value of a call once
Let(f) == f[CHOOSE name \in DOMAIN f : TRUE]

(***************************************************************************)
(* AST nodes (ast_node.py).  Statement(stmt) is a wrapper around exactly   *)
(* one node and is modelled by that node, tagged k with its class name.    *)
(***************************************************************************)
FactorInt(n) == [k |-> "int", value |-> n]
FactorName(s) == [k |-> "str", ident |-> s]
FactorExpr(e) == [k |-> "expr", expr |-> e]
Term(factors, ops) == [factors |-> factors, ops |-> ops]
Expression(prefix, terms, ops) == [prefix |-> prefix, terms |-> terms, ops |-> ops]
Const(ident, value) == [ident |-> ident, value |-> value]
Var(ident) == [ident |-> ident]
Assignment(ident, expr) == [k |-> "Assignment", ident |-> ident, expr |-> expr]
Call(ident) == [k |-> "Call", ident |-> ident]
OddCondition(expr) == [k |-> "Odd", expr |-> expr]
ComparisonCondition(op, lhs, rhs) ==
    [k |-> "Comparison", op |-> op, lhs |-> lhs, rhs |-> rhs]
If(cond, stmt) == [k |-> "If", cond |-> cond, stmt |-> stmt]
While(cond, stmt) == [k |-> "While", cond |-> cond, stmt |-> stmt]
Begin(body) == [k |-> "Begin", body |-> body]
Read(ident) == [k |-> "Read", ident |-> ident]
Write(expr) == [k |-> "Write", expr |-> expr]
Block(consts, variables, procs, stmt) ==
    [consts |-> consts, vars |-> variables, procs |-> procs, stmt |-> stmt]
Procedure(ident, block) == [ident |-> ident, block |-> block]
Program(block) == [block |-> block]

(***************************************************************************)
(* What Parser.parse_expression / parse_term / parse_factor return for the *)
(* shortest source forms; the programs below are written with them.        *)
(***************************************************************************)
\* the source text "n" and the source text "x"
ExprN(n) == Expression("None", <<Term(<<FactorInt(n)>>, <<>>)>>, <<>>)
ExprV(s) == Expression("None", <<Term(<<FactorName(s)>>, <<>>)>>, <<>>)
\* "f1 + f2" or "f1 - f2"
ExprAdd(f1, op, f2) ==
    Expression("None", <<Term(<<f1>>, <<>>), Term(<<f2>>, <<>>)>>, <<op>>)
\* "f1 * f2" or "f1 / f2"
ExprMul(f1, op, f2) == Expression("None", <<Term(<<f1, f2>>, <<op>>)>>, <<>>)

(***************************************************************************)
(* IR (icg.py): IR(op, opr) with opr an int, a str or None.  k names which *)
(* of the three the operand is, n holds an int operand, s a str operand.   *)
(***************************************************************************)
IR(op) == [op |-> op, k |-> "none", n |-> 0, s |-> ""]
IRInt(op, n) == [op |-> op, k |-> "int", n |-> n, s |-> ""]
IRStr(op, s) == [op |-> op, k |-> "str", n |-> 0, s |-> s]

\* the six relational operators of the grammar
RelOps == {"=", "#", "<", "<=", ">", ">="}

(***************************************************************************)
(* ICG (icg.py).  The generator state b is [buf, err]: the buffer self.buf *)
(* and the exception that ended generation ("" while none was raised).     *)
(* Once an exception is raised nothing more is appended.                   *)
(***************************************************************************)
Emit(b, ir) == IF b.err # "" THEN b ELSE [b EXCEPT !.buf = Append(@, ir)]
Raise(b, e) == IF b.err # "" THEN b ELSE [b EXCEPT !.err = e]


RECURSIVE generate_block(_, _)
RECURSIVE generate_statement(_, _)
RECURSIVE generate_expression(_, _)
RECURSIVE generate_term(_, _)
RECURSIVE generate_factor(_, _)
RECURSIVE generate_const(_, _, _)
RECURSIVE generate_var(_, _, _)
RECURSIVE generate_proc(_, _, _)
RECURSIVE generate_begin(_, _, _)
RECURSIVE generate_expression_rest(_, _, _)
RECURSIVE generate_term_rest(_, _, _)

generate_factor(node, b) ==
    CASE node.k = "int" -> Emit(b, IRInt("lit", node.value))
      [] node.k = "str" -> Emit(b, IRStr("load", node.ident))
      [] node.k = "expr" -> generate_expression(node.expr, b)
      [] OTHER -> b

\* the loop "for factor, op in zip(node.factors[1:], node.ops)" from its i-th pair on
generate_term_rest(node, i, b) ==
    IF i > Len(node.ops) \/ i + 1 > Len(node.factors) \/ b.err # "" THEN b
    ELSE LET b1 == generate_factor(node.factors[i + 1], b)
             b2 == CASE node.ops[i] = "*" -> Emit(b1, IR("mul"))
                     [] node.ops[i] = "/" -> Emit(b1, IR("div"))
                     [] OTHER -> Raise(b1, "ValueError: Invalid operator")
         IN generate_term_rest(node, i + 1, b2)

generate_term(node, b) ==
    IF Len(node.factors) # Len(node.ops) + 1 THEN Raise(b, "AssertionError")
    ELSE generate_term_rest(node, 1, generate_factor(node.factors[1], b))

generate_expression_rest(node, i, b) ==
    IF i > Len(node.ops) \/ i + 1 > Len(node.terms) \/ b.err # "" THEN b
    ELSE LET b1 == generate_term(node.terms[i + 1], b)
             b2 == CASE node.ops[i] = "+" -> Emit(b1, IR("add"))
                     [] node.ops[i] = "-" -> Emit(b1, IR("sub"))
                     [] OTHER -> Raise(b1, "ValueError: Invalid operator")
         IN generate_expression_rest(node, i + 1, b2)

\* the mutant of generate_expression: NEG is emitted after the code of all the terms,
\* so that the prefix negates the whole sum
generate_expression_negates_the_sum(node, b) ==
    IF Len(node.terms) # Len(node.ops) + 1 THEN Raise(b, "AssertionError")
    ELSE LET b1 == generate_expression_rest(node, 1, generate_term(node.terms[1], b))
         IN CASE node.prefix \in {"+", "None"} -> b1
              [] node.prefix = "-" -> Emit(b1, IR("neg"))
              [] OTHER -> Raise(b1, "ValueError: Invalid prefix")

generate_expression(node, b) ==
    IF Len(node.terms) # Len(node.ops) + 1 THEN Raise(b, "AssertionError")
    ELSE LET b1 == generate_term(node.terms[1], b)
             b2 == CASE node.prefix \in {"+", "None"} -> b1
                     [] node.prefix = "-" -> Emit(b1, IR("neg"))
                     [] OTHER -> Raise(b1, "ValueError: Invalid prefix")
         IN generate_expression_rest(node, 1, b2)

\* IROp the source's if / elif chain selects for a comparison operator
ComparisonIROp(op) ==
    CASE op = "==" -> "eq"
      [] op = "#" -> "ne"
      [] op = "<" -> "lt"
      [] op = "<=" -> "le"
      [] op = ">" -> "gt"
      [] op = ">=" -> "ge"
      [] OTHER -> ""

generate_comparison(node, b) ==
    LET b1 == generate_expression(node.lhs, b)
        b2 == generate_expression(node.rhs, b1)
    IN IF ComparisonIROp(node.op) # "" THEN Emit(b2, IR(ComparisonIROp(node.op)))
       ELSE Raise(b2, "ValueError: Invalid comparison operator")

generate_condition(node, b) ==
    CASE node.k = "Odd" -> Emit(generate_expression(node.expr, b), IR("odd"))
      [] node.k = "Comparison" -> generate_comparison(node, b)
      [] OTHER -> Raise(b, "ValueError: Invalid condition")

generate_assign(node, b) ==
    Emit(generate_expression(node.expr, b), IRStr("store", node.ident))

generate_call(node, b) == Emit(b, IRStr("call", node.ident))

generate_read(node, b) == Emit(Emit(b, IR("input")), IRStr("store", node.ident))

generate_write(node, b) == Emit(generate_expression(node.expr, b), IR("output"))

\* the mutant of the backpatch: the placeholder is left as it was emitted
Backpatch_unpatched(b, jpf_index) == b

\* self.buf[jpf_index].opr = len(self.buf)
Backpatch(b, jpf_index) ==
    IF b.err # "" THEN b
    ELSE [b EXCEPT !.buf[jpf_index + 1] = IRInt(@.op, Len(b.buf))]

\* the mutant of generate_if: the placeholder is patched before the branch is generated
generate_if_patched_before_branch(node, b) ==
    LET b1 == generate_condition(node.cond, b)
        jpf_index == Len(b1.buf)
        b2 == Emit(b1, IR("jpf"))
    IN generate_statement(node.stmt, Backpatch(b2, jpf_index))

generate_if(node, b) ==
    LET b1 == generate_condition(node.cond, b)
        jpf_index == Len(b1.buf)
        b2 == Emit(b1, IR("jpf"))
        b3 == generate_statement(node.stmt, b2)
    IN Backpatch(b3, jpf_index)

generate_while(node, b) ==
    LET cond_index == Len(b.buf)
        b1 == generate_condition(node.cond, b)
        jpf_index == Len(b1.buf)
        b2 == Emit(b1, IR("jpf"))
        b3 == generate_statement(node.stmt, b2)
        b4 == Emit(b3, IRInt("jmp", cond_index))
    IN Backpatch(b4, jpf_index)

\* the loop "for stmt in node.body" from the i-th statement on
generate_begin(node, i, b) ==
    IF i > Len(node.body) \/ b.err # "" THEN b
    ELSE generate_begin(node, i + 1, generate_statement(node.body[i], b))

generate_statement(stmt, b) ==
    CASE stmt.k = "Assignment" -> generate_assign(stmt, b)
      [] stmt.k = "Call" -> generate_call(stmt, b)
      [] stmt.k = "If" -> generate_if(stmt, b)
      [] stmt.k = "While" -> generate_while(stmt, b)
      [] stmt.k = "Begin" -> generate_begin(stmt, 1, b)
      [] stmt.k = "Read" -> generate_read(stmt, b)
      [] stmt.k = "Write" -> generate_write(stmt, b)
      [] OTHER -> Raise(b, "NotImplementedError")

\* the loop "for const in consts" from the i-th constant on
generate_const(consts, i, b) ==
    IF i > Len(consts) THEN b
    ELSE generate_const(consts, i + 1,
             Emit(Emit(b, IRInt("lit", consts[i].value)), IRStr("const", consts[i].ident)))

\* the loop "for var in variables" from the i-th variable on
generate_var(variables, i, b) ==
    IF i > Len(variables) THEN b
    ELSE generate_var(variables, i + 1, Emit(b, IRStr("var", variables[i].ident)))

\* the mutant of generate_proc: no RET after the block of the procedure
generate_proc_without_ret(procs, i, b) ==
    IF i > Len(procs) \/ b.err # "" THEN b
    ELSE generate_proc(procs, i + 1,
             generate_block(procs[i].block, Emit(b, IRStr("proc", procs[i].ident))))

\* the loop "for proc in procs" from the i-th procedure on
generate_proc(procs, i, b) ==
    IF i > Len(procs) \/ b.err # "" THEN b
    ELSE generate_proc(procs, i + 1,
             Emit(generate_block(procs[i].block, Emit(b, IRStr("proc", procs[i].ident))),
                  IR("ret")))

generate_block(node, b) ==
    generate_statement(node.stmt,
        generate_proc(node.procs, 1,
            generate_var(node.vars, 1, generate_const(node.consts, 1, b))))

\* the mutant of generate_program: no HALT after the block
generate_program_without_halt(node, b) == generate_block(node.block, b)

generate_program(node, b) == Emit(generate_block(node.block, b), IR("halt"))

(***************************************************************************)
(* Values and symbols (symboltable.py).  Symbol(ident, type, value): the   *)
(* value is None (vk = "none"), an int (vk = "int", in value) or, in the   *)
(* AST interpreter, a Procedure node (vk = "proc", proc = the path of the  *)
(* procedure in the AST: the indices into .procs from the program block).  *)
(* SymbolType is a StrEnum with auto(): "const", "var", "proc".            *)
(***************************************************************************)
NoneV == [vk |-> "none", value |-> 0, proc |-> <<>>]
IntV(n) == [vk |-> "int", value |-> n, proc |-> <<>>]
ProcV(path) == [vk |-> "proc", value |-> 0, proc |-> path]
Symbol(ident, type, v) ==
    [ident |-> ident, type |-> type, vk |-> v.vk, value |-> v.value, proc |-> v.proc]
SymbolValue(sym) == [vk |-> sym.vk, value |-> sym.value, proc |-> sym.proc]


\* the mutant of _register: appends without looking for the ident
register_unchecked(symbols, symbol) ==
    [err |-> "", symbols |-> Append(symbols, symbol)]

\* SymbolTable._register: [err, symbols], symbols unchanged when it raises
register(symbols, symbol) ==
    IF \E i \in 1..Len(symbols) : symbols[i].ident = symbol.ident
    THEN [err |-> "ValueError: already exists", symbols |-> symbols]
    ELSE [err |-> "", symbols |-> Append(symbols, symbol)]

register_const(symbols, ident, v) == register(symbols, Symbol(ident, "const", v))
register_var(symbols, ident) == register(symbols, Symbol(ident, "var", NoneV))
register_proc(symbols, ident, v) == register(symbols, Symbol(ident, "proc", v))

(***************************************************************************)
(* SymbolTable.retrieve(ident) is called by both executors and is not in   *)
(* symboltable.py; its callers test the result against None.  It is the    *)
(* lookup of the specification: the index of the first entry whose ident   *)
(* matches, 0 (None) when there is none.                                   *)
(***************************************************************************)
table_retrieve(symbols, ident) ==
    IF \A i \in 1..Len(symbols) : symbols[i].ident # ident THEN 0
    ELSE CHOOSE i \in 1..Len(symbols) :
             symbols[i].ident = ident /\ \A j \in 1..(i - 1) : symbols[j].ident # ident

\* Symbol.assign(value), called by the AST interpreter, not in symboltable.py
symbol_assign(sym, v) == [sym EXCEPT !.vk = v.vk, !.value = v.value, !.proc = v.proc]

\* a resolved symbol: table e of the stack (0: not found), entry i of that table
NotFound == [e |-> 0, i |-> 0]

RECURSIVE retrieve_from(_, _, _)
retrieve_from(env, ident, e) ==
    IF e < 1 THEN NotFound
    ELSE IF table_retrieve(env[e], ident) # 0
         THEN [e |-> e, i |-> table_retrieve(env[e], ident)]
         ELSE retrieve_from(env, ident, e - 1)

\* the mutant of ICInterpreter.retrieve: an unknown name resolves to the first
\* global entry instead of raising
retrieve_fallback(env, ident) ==
    IF retrieve_from(env, ident, Len(env)) = NotFound /\ Len(env) >= 1 /\ Len(env[1]) >= 1
    THEN [e |-> 1, i |-> 1]
    ELSE retrieve_from(env, ident, Len(env))

\* the mutant of ICInterpreter.retrieve: only the top table is searched
retrieve_top_only(env, ident) ==
    IF Len(env) >= 1 /\ table_retrieve(env[Len(env)], ident) # 0
    THEN [e |-> Len(env), i |-> table_retrieve(env[Len(env)], ident)]
    ELSE NotFound

\* the mutant of ICInterpreter.retrieve: a static link for procedures declared in
\* the global block, the top table and then the global one, the callers' skipped
retrieve_static(env, ident) ==
    IF table_retrieve(env[Len(env)], ident) # 0
    THEN [e |-> Len(env), i |-> table_retrieve(env[Len(env)], ident)]
    ELSE IF table_retrieve(env[1], ident) # 0
    THEN [e |-> 1, i |-> table_retrieve(env[1], ident)]
    ELSE NotFound

\* the mutant of ICInterpreter.retrieve: the tables are searched from the global
\* one upwards, so the outermost declaration of a name wins
retrieve_outermost(env, ident) ==
    IF \A e \in 1..Len(env) : table_retrieve(env[e], ident) = 0 THEN NotFound
    ELSE LET e == CHOOSE e \in 1..Len(env) :
                      /\ table_retrieve(env[e], ident) # 0
                      /\ \A f \in 1..(e - 1) : table_retrieve(env[f], ident) = 0
         IN [e |-> e, i |-> table_retrieve(env[e], ident)]

\* ICInterpreter.retrieve: for env in reversed(self.env); NotFound is its KeyError
retrieve(env, ident) == retrieve_from(env, ident, Len(env))

(***************************************************************************)
(* The stack VM (ic_interpreter.py).  m is the interpreter object:         *)
(* [ic, pc, stack, env, out, status, reads, debug, stdout]; out is the     *)
(* values OUTPUT has printed, stdout the lines on sys.stdout, reads the    *)
(* number of input() calls made, status "running", "halted" or the         *)
(* exception that left run().  bool results are 1 / 0.                     *)
(***************************************************************************)

Fail(m, e) == [m EXCEPT !.status = e]
\* print(...): one more line on sys.stdout, the channel both kinds of print() write
\* to.  A line is the str() of a value v, or (trace) the text of a debug message
Stdout(m, trace, v) == [m EXCEPT !.stdout = Append(@, [trace |-> trace, v |-> v])]
\* if self.debug: print(<a debug message>)
Debug(m) == IF m.debug THEN Stdout(m, TRUE, NoneV) ELSE m
Push(m, v) == [m EXCEPT !.stack = Append(@, v)]
\* the stack without its n topmost values
Drop(m, n) == [m EXCEPT !.stack = SubSeq(@, 1, Len(@) - n)]
\* the n-th value from the top: the value the n-th self.stack.pop() returns
Peek(m, n) == m.stack[Len(m.stack) + 1 - n]
\* n pops of a stack that holds fewer: the pops that succeed are made
Underflow(m) == Fail([m EXCEPT !.stack = <<>>], "IndexError")
Bool(b) == IF b THEN 1 ELSE 0

\* the mutant of BinaryResult: the operands taken in the order they are popped
BinaryResult_popped_order(op, a, b) ==
    CASE op = "add" -> a + b
      [] op = "sub" -> a - b
      [] op = "mul" -> a * b
      [] op = "eq" -> Bool(a = b)
      [] op = "ne" -> Bool(a # b)
      [] op = "lt" -> Bool(a < b)
      [] op = "le" -> Bool(a <= b)
      [] op = "gt" -> Bool(a > b)
      [] op = "ge" -> Bool(a >= b)

\* ADD .. GE except DIV: a is the first value popped, b the second
BinaryResult(op, a, b) ==
    CASE op = "add" -> a + b
      [] op = "sub" -> (0 - a) + b
      [] op = "mul" -> a * b
      [] op = "eq" -> Bool(a = b)
      [] op = "ne" -> Bool(a # b)
      [] op = "lt" -> Bool(a > b)
      [] op = "le" -> Bool(a >= b)
      [] op = "gt" -> Bool(a < b)
      [] op = "ge" -> Bool(a <= b)

ExecBinary(m, op) ==
    IF Len(m.stack) < 2 THEN Underflow(m)
    ELSE Push(Drop(m, 2), BinaryResult(op, Peek(m, 1), Peek(m, 2)))

\* the mutant of ExecDIV: no test of the divisor, a zero divisor gives 0
ExecDIV_unchecked(m) ==
    IF Len(m.stack) < 2 THEN Underflow(m)
    ELSE IF Peek(m, 1) = 0 THEN Push(Drop(m, 2), 0)
    ELSE Push(Drop(m, 2), Peek(m, 2) \div Peek(m, 1))

\* Python's // is floor division, as is \div
ExecDIV(m) ==
    IF Len(m.stack) < 2 THEN Underflow(m)
    ELSE LET divisor == Peek(m, 1)
             dividend == Peek(m, 2)
         IN IF divisor = 0 THEN Fail(Drop(m, 2), "ZeroDivisionError")
            ELSE Push(Drop(m, 2), dividend \div divisor)

\* NEG and ODD: op applied to the value popped
ExecUnary(m, op) ==
    IF Len(m.stack) < 1 THEN Underflow(m)
    ELSE Push(Drop(m, 1), IF op = "neg" THEN 0 - Peek(m, 1) ELSE Peek(m, 1) % 2)

\* the mutant of ExecLOAD: an uninitialized Var loads as 0
ExecLOAD_uninitialized_zero(m, ir) ==
    LET at == retrieve(m.env, ir.s)
    IN IF at = NotFound THEN Fail(m, "KeyError: not found")
       ELSE IF m.env[at.e][at.i].vk = "none" THEN Push(m, 0)
       ELSE IF m.env[at.e][at.i].type = "proc" THEN Fail(m, "Exception: load a procedure")
       ELSE Push(m, m.env[at.e][at.i].value)

ExecLOAD(m, ir) ==
    LET at == retrieve(m.env, ir.s)
    IN IF at = NotFound THEN Fail(m, "KeyError: not found")
       ELSE IF m.env[at.e][at.i].vk = "none" THEN Fail(m, "Exception: not initialized")
       ELSE IF m.env[at.e][at.i].type = "proc" THEN Fail(m, "Exception: load a procedure")
       ELSE Push(m, m.env[at.e][at.i].value)

ExecSTORE(m, ir) ==
    LET at == retrieve(m.env, ir.s)
    IN IF at = NotFound THEN Fail(m, "KeyError: not found")
       ELSE IF m.env[at.e][at.i].type # "var" THEN Fail(m, "Exception: not a variable")
       ELSE IF Len(m.stack) < 1 THEN Underflow(m)
       ELSE Debug([Drop(m, 1) EXCEPT
                      !.env[at.e][at.i] = symbol_assign(@, IntV(Peek(m, 1)))])

\* the mutant of ExecCALL: the address pushed is the index of the CALL itself
ExecCALL_pushes_own_index(m, ir) ==
    LET at == retrieve(m.env, ir.s)
    IN IF at = NotFound THEN Fail(m, "KeyError: not found")
       ELSE IF m.env[at.e][at.i].type # "proc"
            THEN Fail(m, "Exception: call a non-procedure")
       ELSE [m EXCEPT !.stack = Append(@, m.pc - 1),
                      !.env = Append(@, <<>>),
                      !.pc = m.env[at.e][at.i].value]

ExecCALL(m, ir) ==
    LET at == retrieve(m.env, ir.s)
    IN IF at = NotFound THEN Fail(m, "KeyError: not found")
       ELSE IF m.env[at.e][at.i].type # "proc"
            THEN Fail(m, "Exception: call a non-procedure")
       ELSE [m EXCEPT !.stack = Append(@, m.pc),
                      !.env = Append(@, <<>>),
                      !.pc = m.env[at.e][at.i].value]

\* the mutant of ExecRET: the return address is read and left on the stack
ExecRET_keeps_address(m) ==
    IF Len(m.env) < 1 THEN Fail(m, "IndexError")
    ELSE IF Len(m.stack) < 1
         THEN Fail([m EXCEPT !.env = SubSeq(@, 1, Len(@) - 1)], "IndexError")
    ELSE [m EXCEPT !.env = SubSeq(@, 1, Len(@) - 1),
                   !.pc = Peek(m, 1)]

ExecRET(m) ==
    IF Len(m.env) < 1 THEN Fail(m, "IndexError")
    ELSE IF Len(m.stack) < 1
         THEN Fail([m EXCEPT !.env = SubSeq(@, 1, Len(@) - 1)], "IndexError")
    ELSE [m EXCEPT !.env = SubSeq(@, 1, Len(@) - 1),
                   !.stack = SubSeq(@, 1, Len(@) - 1),
                   !.pc = Peek(m, 1)]

\* a jump to an operand that is None fails at the next fetch, self.ic[None]
ExecJMP(m, ir) == IF ir.k = "int" THEN [m EXCEPT !.pc = ir.n] ELSE Fail(m, "TypeError")

\* the mutant of ExecJPF: jumps when the popped value is truthy
ExecJPF_truthy(m, ir) ==
    IF Len(m.stack) < 1 THEN Underflow(m)
    ELSE IF Peek(m, 1) # 0 THEN ExecJMP(Drop(m, 1), ir) ELSE Drop(m, 1)

ExecJPF(m, ir) ==
    IF Len(m.stack) < 1 THEN Underflow(m)
    ELSE IF Peek(m, 1) = 0 THEN ExecJMP(Drop(m, 1), ir) ELSE Drop(m, 1)

\* self.current_env.register_...: the table on top of self.env is replaced
Declare(m, r) ==
    IF r.err # "" THEN Fail(m, r.err) ELSE [m EXCEPT !.env[Len(m.env)] = r.symbols]

ExecVAR(m, ir) ==
    IF Len(m.env) < 1 THEN Fail(m, "IndexError")
    ELSE Declare(m, register_var(m.env[Len(m.env)], ir.s))

ExecCONST(m, ir) ==
    IF Len(m.env) < 1 THEN Fail(m, "IndexError")
    ELSE IF Len(m.stack) < 1 THEN Underflow(m)
    ELSE Declare(Drop(m, 1), register_const(m.env[Len(m.env)], ir.s, IntV(Peek(m, 1))))

RECURSIVE search_ret(_, _, _)
\* ICInterpreter._search_ret from pc with the counter at proc_count; -1 is the
\* IndexError of reading past the end of the list
search_ret(ic, pc, proc_count) ==
    IF proc_count <= 0 THEN pc
    ELSE IF pc < 0 \/ pc >= Len(ic) THEN 0 - 1
    ELSE search_ret(ic, pc + 1,
             CASE ic[pc + 1].op = "proc" -> proc_count + 1
               [] ic[pc + 1].op = "ret" -> proc_count - 1
               [] OTHER -> proc_count)

\* the mutant of ExecPROC: the body is skipped up to the first RET, uncounted
ExecPROC_skips_to_first_ret(m, ir) ==
    IF Len(m.env) < 1 THEN Fail(m, "IndexError")
    ELSE LET d == Declare(m, register_proc(m.env[Len(m.env)], ir.s, IntV(m.pc)))
             rets == {r \in m.pc..(Len(m.ic) - 1) : m.ic[r + 1].op = "ret"}
         IN IF d.status # "running" THEN d
            ELSE IF rets = {} THEN Fail([d EXCEPT !.pc = Len(m.ic)], "IndexError")
            ELSE [d EXCEPT !.pc = 1 + CHOOSE r \in rets : \A q \in rets : r <= q]

ExecPROC(m, ir) ==
    IF Len(m.env) < 1 THEN Fail(m, "IndexError")
    ELSE LET d == Declare(m, register_proc(m.env[Len(m.env)], ir.s, IntV(m.pc)))
             to == search_ret(m.ic, m.pc, 1)
         IN IF d.status # "running" THEN d
            ELSE IF to < 0 THEN Fail([d EXCEPT !.pc = Len(m.ic)], "IndexError")
            ELSE [d EXCEPT !.pc = to]

\* print(self.stack.pop())
ExecOUTPUT(m) ==
    IF Len(m.stack) < 1 THEN Underflow(m)
    ELSE Stdout([Drop(m, 1) EXCEPT !.out = Append(@, Peek(m, 1))], FALSE, IntV(Peek(m, 1)))

\* self.current_ir; "" when self.ic[self.pc] raises IndexError
CurrentOp(m) == IF m.pc >= 0 /\ m.pc < Len(m.ic) THEN m.ic[m.pc + 1].op ELSE ""

\* one iteration of the loop of ICInterpreter.run; v is the integer that int(input())
\* returns, should the instruction be INPUT
Step(m, v) ==
    IF CurrentOp(m) = "" THEN Fail(m, "IndexError")
    ELSE LET ir == m.ic[m.pc + 1]
             n == Debug([m EXCEPT !.pc = @ + 1])
         IN CASE ir.op \in {"add", "sub", "mul", "eq", "ne", "lt", "le", "gt", "ge"} ->
                     ExecBinary(n, ir.op)
              [] ir.op = "div" -> ExecDIV(n)
              [] ir.op \in {"neg", "odd"} -> ExecUnary(n, ir.op)
              [] ir.op = "load" -> ExecLOAD(n, ir)
              [] ir.op = "store" -> ExecSTORE(n, ir)
              [] ir.op = "lit" -> Push(n, ir.n)
              [] ir.op = "call" -> ExecCALL(n, ir)
              [] ir.op = "ret" -> ExecRET(n)
              [] ir.op = "jmp" -> ExecJMP(n, ir)
              [] ir.op = "jpf" -> ExecJPF(n, ir)
              [] ir.op = "var" -> ExecVAR(n, ir)
              [] ir.op = "const" -> ExecCONST(n, ir)
              [] ir.op = "proc" -> ExecPROC(n, ir)
              [] ir.op = "input" -> [Push(n, v) EXCEPT !.reads = @ + 1]
              [] ir.op = "output" -> ExecOUTPUT(n)
              [] ir.op = "halt" -> [n EXCEPT !.status = "halted"]
              [] OTHER -> n

\* ICInterpreter.__init__
NewVM(ic) ==
    [ic |-> ic, pc |-> 0, stack |-> <<>>, env |-> <<<<>>>>, out |-> <<>>,
     status |-> "running", reads |-> 0, debug |-> FALSE, stdout |-> <<>>]

(***************************************************************************)
(* The AST interpreter (ast_interpreter.py).  s is the interpreter object: *)
(* [stack, out, status, cont, reads, debug, stdout].  cont is the work the *)
(* Python call stack still holds, first item first: [k, node, path] is a   *)
(* declaration or statement about to be interpreted, the entry of a block  *)
(* (k = "block", path names the block) or the self.stack.pop() that ends   *)
(* interpret_block (k = "pop").  An expression evaluates to a value or to  *)
(* the exception it raises, a value record whose vk names the exception.   *)
(***************************************************************************)

ErrV(e) == [vk |-> e, value |-> 0, proc |-> <<>>]
IsErr(v) == v.vk \notin {"int", "none", "proc"}

\* the block a path names: <<>> is the program's block, Append(p, i) the block of
\* the i-th procedure of the block p names
RECURSIVE BlockAt(_, _)
BlockAt(program, path) ==
    IF path = <<>> THEN program.block
    ELSE BlockAt(program, SubSeq(path, 1, Len(path) - 1)).procs[path[Len(path)]].block

\* the Procedure node a non-empty path names
ProcedureAt(program, path) ==
    BlockAt(program, SubSeq(path, 1, Len(path) - 1)).procs[path[Len(path)]]

\* ASTInterpreter.retrieve, and the same loop in interpret_call and interpret_factor
ast_retrieve(stack, ident) == retrieve_from(stack, ident, Len(stack))

\* Python's - + * // on what a Symbol can hold: ints only, anything else raises
PyNeg(a) == IF a.vk = "int" THEN IntV(0 - a.value) ELSE ErrV("TypeError: operand type")
PyArith(op, a, b) ==
    IF a.vk # "int" \/ b.vk # "int" THEN ErrV("TypeError: operand type")
    ELSE CASE op = "+" -> IntV(a.value + b.value)
           [] op = "-" -> IntV(a.value - b.value)
           [] op = "*" -> IntV(a.value * b.value)
           [] op = "//" ->
                 IF b.value = 0 THEN ErrV("ZeroDivisionError")
                 ELSE IntV(a.value \div b.value)
\* ==: ints by value, None only to None, Procedure nodes field by field
PyEq(program, a, b) ==
    /\ a.vk = b.vk
    /\ a.vk = "int" => a.value = b.value
    /\ a.vk = "proc" => ProcedureAt(program, a.proc) = ProcedureAt(program, b.proc)
\* < <= > >=
PyOrder(op, a, b) ==
    IF a.vk # "int" \/ b.vk # "int" THEN ErrV("TypeError: operand type")
    ELSE IntV(Bool(CASE op = "<" -> a.value < b.value
                     [] op = "<=" -> a.value <= b.value
                     [] op = ">" -> a.value > b.value
                     [] op = ">=" -> a.value >= b.value))

RECURSIVE interpret_expression(_, _)
RECURSIVE interpret_term(_, _)
RECURSIVE interpret_factor(_, _)
RECURSIVE interpret_expression_rest(_, _, _, _)
RECURSIVE interpret_term_rest(_, _, _, _)

\* no test of the symbol's type, and result.value of a result that is None
interpret_factor(factor, stack) ==
    CASE factor.k = "int" -> IntV(factor.value)
      [] factor.k = "expr" -> interpret_expression(factor.expr, stack)
      [] factor.k = "str" ->
            LET at == ast_retrieve(stack, factor.ident)
            IN IF at = NotFound THEN ErrV("AttributeError: NoneType")
               ELSE SymbolValue(stack[at.e][at.i])

\* the loop "for factor, op in zip(term.factors[1:], term.ops)" from its i-th pair on
interpret_term_rest(term, i, result, stack) ==
    IF IsErr(result) \/ i > Len(term.ops) \/ i + 1 > Len(term.factors) THEN result
    ELSE LET f == interpret_factor(term.factors[i + 1], stack)
         IN interpret_term_rest(term, i + 1,
                IF IsErr(f) THEN f
                ELSE PyArith(IF term.ops[i] = "*" THEN "*" ELSE "//", result, f),
                stack)

interpret_term(term, stack) ==
    interpret_term_rest(term, 1, interpret_factor(term.factors[1], stack), stack)

\* the loop "for term, op in zip(expr.terms[1:], expr.ops)" from its i-th pair on
interpret_expression_rest(expr, i, result, stack) ==
    IF IsErr(result) \/ i > Len(expr.ops) \/ i + 1 > Len(expr.terms) THEN result
    ELSE LET t == interpret_term(expr.terms[i + 1], stack)
         IN interpret_expression_rest(expr, i + 1,
                IF IsErr(t) THEN t
                ELSE PyArith(IF expr.ops[i] = "+" THEN "+" ELSE "-", result, t),
                stack)

interpret_expression(expr, stack) ==
    LET t == interpret_term(expr.terms[1], stack)
    IN interpret_expression_rest(expr, 1,
           IF expr.prefix = "-" /\ ~IsErr(t) THEN PyNeg(t) ELSE t, stack)

interpret_comparison(program, comp, stack) ==
    Let([lhs \in {interpret_expression(comp.lhs, stack)} |->
    Let([rhs \in {interpret_expression(comp.rhs, stack)} |->
    IF IsErr(lhs) THEN lhs
    ELSE IF IsErr(rhs) THEN rhs
    ELSE CASE comp.op = "=" -> IntV(Bool(PyEq(program, lhs, rhs)))
           [] comp.op = "#" -> IntV(Bool(~PyEq(program, lhs, rhs)))
           [] comp.op \in {"<", "<=", ">", ">="} -> PyOrder(comp.op, lhs, rhs)
           [] OTHER -> ErrV("TypeError: comparison operator")])])

\* IntV(1) for True, IntV(0) for False; an OddCondition is v % 2 == 1
interpret_condition(program, cond, stack) ==
    IF cond.k = "Odd"
    THEN Let([v \in {interpret_expression(cond.expr, stack)} |->
         IF IsErr(v) THEN v
         ELSE IF v.vk # "int" THEN ErrV("TypeError: operand type")
         ELSE IntV(Bool(v.value % 2 = 1))])
    ELSE interpret_comparison(program, cond, stack)

\* an item of work: k is "block", "const", "var", "proc", "pop" or a statement's class
NoNode == [k |-> "none"]
Item(k, node, path) == [k |-> k, node |-> node, path |-> path]

\* the work items put before the work that is left
Todo(s, items) == [s EXCEPT !.cont = items \o @]
\* self.current_table.register_...
AstDeclare(s, r) ==
    IF r.err # "" THEN Fail(s, r.err) ELSE [s EXCEPT !.stack[Len(s.stack)] = r.symbols]

\* interpret_block: the new table, then the declarations, the statement, the pop
interpret_block(program, s, path) ==
    LET block == BlockAt(program, path)
    IN Todo([s EXCEPT !.stack = Append(@, <<>>)],
            [i \in 1..Len(block.consts) |-> Item("const", block.consts[i], <<>>)]
            \o [i \in 1..Len(block.vars) |-> Item("var", block.vars[i], <<>>)]
            \o [i \in 1..Len(block.procs) |-> Item("proc", NoNode, Append(path, i))]
            \o <<Item(block.stmt.k, block.stmt, <<>>), Item("pop", NoNode, <<>>)>>)

\* the self.stack.pop() that ends interpret_block
interpret_block_exit(s) == [s EXCEPT !.stack = SubSeq(@, 1, Len(@) - 1)]

interpret_const(s, const) ==
    AstDeclare(s, register_const(s.stack[Len(s.stack)], const.ident, IntV(const.value)))

interpret_var(s, var) == AstDeclare(s, register_var(s.stack[Len(s.stack)], var.ident))

interpret_procedure(program, s, path) ==
    AstDeclare(s, register_proc(s.stack[Len(s.stack)],
                                ProcedureAt(program, path).ident, ProcV(path)))

\* the name is resolved and its type tested before the expression is evaluated
interpret_assignment(s, node) ==
    LET at == ast_retrieve(s.stack, node.ident)
        v == interpret_expression(node.expr, s.stack)
    IN IF at = NotFound THEN Fail(s, "NameError: not defined")
       ELSE IF s.stack[at.e][at.i].type # "var" THEN Fail(s, "TypeError: not a variable")
       ELSE IF IsErr(v) THEN Fail(s, v.vk)
       ELSE Debug([s EXCEPT !.stack[at.e][at.i] = symbol_assign(@, v)])

\* result.type of a result that is None raises AttributeError
interpret_call(s, node) ==
    LET at == ast_retrieve(s.stack, node.ident)
    IN IF at = NotFound THEN Fail(s, "AttributeError: NoneType")
       ELSE IF s.stack[at.e][at.i].type = "proc"
            THEN Todo(s, <<Item("block", NoNode, s.stack[at.e][at.i].proc)>>)
       ELSE Fail(s, "TypeError: not a procedure")

interpret_if(program, s, node) ==
    Let([c \in {interpret_condition(program, node.cond, s.stack)} |->
    IF IsErr(c) THEN Fail(s, c.vk)
    ELSE IF c.value = 1 THEN Todo(s, <<Item(node.stmt.k, node.stmt, <<>>)>>)
    ELSE s])

\* one test of the condition: the body, then the while statement again
interpret_while(program, s, node) ==
    Let([c \in {interpret_condition(program, node.cond, s.stack)} |->
    IF IsErr(c) THEN Fail(s, c.vk)
    ELSE IF c.value = 1
         THEN Todo(s, <<Item(node.stmt.k, node.stmt, <<>>), Item("While", node, <<>>)>>)
    ELSE s])

interpret_begin(s, node) ==
    Todo(s, [i \in 1..Len(node.body) |-> Item(node.body[i].k, node.body[i], <<>>)])

\* v is the integer that int(input(...)) returns
interpret_read(s, node, v) ==
    LET at == ast_retrieve(s.stack, node.ident)
    IN IF at = NotFound THEN Fail(s, "NameError: not defined")
       ELSE IF s.stack[at.e][at.i].type # "var" THEN Fail(s, "TypeError: not a variable")
       ELSE Debug([s EXCEPT !.stack[at.e][at.i] = symbol_assign(@, IntV(v)),
                            !.reads = @ + 1])

\* print(v), v being whatever the expression evaluated to
interpret_write(s, node) ==
    LET v == interpret_expression(node.expr, s.stack)
    IN IF IsErr(v) THEN Fail(s, v.vk) ELSE Stdout([s EXCEPT !.out = Append(@, v)], FALSE, v)

\* the interpreter s with the first item of its work taken up: the interpret_*
\* method entered begins with its debug message (one line stands for it and for
\* the messages of the methods it enters for its expression or condition)
Rest(s) ==
    IF Head(s.cont).k = "pop" THEN [s EXCEPT !.cont = Tail(@)]
    ELSE Debug([s EXCEPT !.cont = Tail(@)])

\* the interpreter after the item that turned Rest(s) into r: "done" once
\* interpret() returned, and a raised exception leaves the item where it was
After(s, r) ==
    IF r.status # "running" THEN [r EXCEPT !.cont = s.cont]
    ELSE IF r.cont = <<>> THEN [r EXCEPT !.status = "done"]
    ELSE r

\* ASTInterpreter.__init__, and interpret() about to enter the program's block
NewInterp ==
    [stack |-> <<<<>>>>, out |-> <<>>, status |-> "running",
     cont |-> <<Item("block", NoNode, <<>>)>>, reads |-> 0, debug |-> FALSE,
     stdout |-> <<>>]

(***************************************************************************)
(* The programs the executors are run on: for each, in the comment, the    *)
(* source text, and as definition the AST Parser.parse_program returns     *)
(* for it.                                                                 *)
(***************************************************************************)
\* var n, r; procedure fact; begin if n > 1 then begin r := r * n; n := n - 1;
\* call fact end end; begin n := 5; r := 1; call fact; ! r end.
FactProgram ==
    Program(Block(<<>>, <<Var("n"), Var("r")>>,
        <<Procedure("fact", Block(<<>>, <<>>, <<>>,
            Begin(<<If(ComparisonCondition(">", ExprV("n"), ExprN(1)),
                Begin(<<Assignment("r", ExprMul(FactorName("r"), "*", FactorName("n"))),
                        Assignment("n", ExprAdd(FactorName("n"), "-", FactorInt(1))),
                        Call("fact")>>))>>)))>>,
        Begin(<<Assignment("n", ExprN(5)), Assignment("r", ExprN(1)),
                Call("fact"), Write(ExprV("r"))>>)))

\* var i, s; begin i := 0; s := 0; while i < 5 do begin i := i + 1;
\* s := s + i * i end end.
SumSquaresProgram ==
    Program(Block(<<>>, <<Var("i"), Var("s")>>, <<>>,
        Begin(<<Assignment("i", ExprN(0)), Assignment("s", ExprN(0)),
                While(ComparisonCondition("<", ExprV("i"), ExprN(5)),
                    Begin(<<Assignment("i", ExprAdd(FactorName("i"), "+", FactorInt(1))),
                            Assignment("s", Expression("None",
                                <<Term(<<FactorName("s")>>, <<>>),
                                  Term(<<FactorName("i"), FactorName("i")>>, <<"*">>)>>,
                                <<"+">>))>>))>>)))

\* var a; begin a := 1 / 0 end.
DivZeroProgram ==
    Program(Block(<<>>, <<Var("a")>>, <<>>,
        Begin(<<Assignment("a", ExprMul(FactorInt(1), "/", FactorInt(0)))>>)))

\* const k = 3; begin k := 4 end.
ConstAssignProgram ==
    Program(Block(<<Const("k", 3)>>, <<>>, <<>>, Begin(<<Assignment("k", ExprN(4))>>)))

\* var a; begin ? a; if a op 1 then ! 1; ! 0 end.   for op one of = # < <= > >=
\* and for ";", an Op token the parser takes in the operator's place
ComparisonProgram(op) ==
    Program(Block(<<>>, <<Var("a")>>, <<>>,
        Begin(<<Read("a"),
                If(ComparisonCondition(op, ExprV("a"), ExprN(1)), Write(ExprN(1))),
                Write(ExprN(0))>>)))

\* var x; begin x := 1; ! x; stmt end.
AfterOutput(stmt) ==
    Program(Block(<<>>, <<Var("x")>>, <<>>,
        Begin(<<Assignment("x", ExprN(1)), Write(ExprV("x")), stmt>>)))

\* var x; procedure p; var x; ! x; begin x := 1; call p end.
ShadowUninitializedProgram ==
    Program(Block(<<>>, <<Var("x")>>,
        <<Procedure("p", Block(<<>>, <<Var("x")>>, <<>>, Write(ExprV("x"))))>>,
        Begin(<<Assignment("x", ExprN(1)), Call("p")>>)))

Programs ==
    LET \* procedure p; ! 1; stmt.
        WithProcedureP(stmt) ==
            Program(Block(<<>>, <<>>,
                <<Procedure("p", Block(<<>>, <<>>, <<>>, Write(ExprN(1))))>>, stmt))
        \* const k = 3; stmt.
        WithConstK(stmt) == Program(Block(<<Const("k", 3)>>, <<>>, <<>>, stmt))
        \* decls ! 1.   with the declarations of one block
        Declaring(consts, variables, procs) ==
            Program(Block(consts, variables, procs, Write(ExprN(1))))
        \* procedure a; ! n;
        ProcedureA(n) == Procedure("a", Block(<<>>, <<>>, <<>>, Write(ExprN(n))))
    IN
    <<FactProgram, SumSquaresProgram, DivZeroProgram, ConstAssignProgram,
      \* var a, b; begin ? a; ? b; ! a / b end.
      Program(Block(<<>>, <<Var("a"), Var("b")>>, <<>>,
          Begin(<<Read("a"), Read("b"),
                  Write(ExprMul(FactorName("a"), "/", FactorName("b")))>>))),
      \* var x; begin x := 7; if odd x then ! x end.
      Program(Block(<<>>, <<Var("x")>>, <<>>,
          Begin(<<Assignment("x", ExprN(7)),
                  If(OddCondition(ExprV("x")), Write(ExprV("x")))>>))),
      \* var a; a := - 1 + 2.
      Program(Block(<<>>, <<Var("a")>>, <<>>,
          Assignment("a", Expression("-", <<Term(<<FactorInt(1)>>, <<>>),
                                            Term(<<FactorInt(2)>>, <<>>)>>, <<"+">>)))),
      \* var a; begin ? a; ! - a * 2 + (a - 1) end.
      Program(Block(<<>>, <<Var("a")>>, <<>>,
          Begin(<<Read("a"),
                  Write(Expression("-",
                      <<Term(<<FactorName("a"), FactorInt(2)>>, <<"*">>),
                        Term(<<FactorExpr(ExprAdd(FactorName("a"), "-", FactorInt(1)))>>,
                             <<>>)>>,
                      <<"+">>))>>))),
      \* const k = 3; var x; begin x := k + 1; ! x end.
      Program(Block(<<Const("k", 3)>>, <<Var("x")>>, <<>>,
          Begin(<<Assignment("x", ExprAdd(FactorName("k"), "+", FactorInt(1))),
                  Write(ExprV("x"))>>))),
      \* begin ! (0 - 7) / 2; ! 7 / (0 - 2) end.
      Program(Block(<<>>, <<>>, <<>>,
          Begin(<<Write(ExprMul(FactorExpr(ExprAdd(FactorInt(0), "-", FactorInt(7))), "/",
                                FactorInt(2))),
                  Write(ExprMul(FactorInt(7), "/",
                                FactorExpr(ExprAdd(FactorInt(0), "-", FactorInt(2)))))>>))),
      ComparisonProgram("="), ComparisonProgram("#"), ComparisonProgram("<"),
      ComparisonProgram("<="), ComparisonProgram(">"), ComparisonProgram(">="),
      ComparisonProgram(";"),
      \* kind mismatches: p := 1   ? p   ! p   ? k   call k   call x
      WithProcedureP(Assignment("p", ExprN(1))), WithProcedureP(Read("p")),
      WithProcedureP(Write(ExprV("p"))), WithConstK(Read("k")), WithConstK(Call("k")),
      AfterOutput(Call("x")),
      \* names declared nowhere: ! u   u := 1   call u   ? u   x := u + 1
      AfterOutput(Write(ExprV("u"))), AfterOutput(Assignment("u", ExprN(1))),
      AfterOutput(Call("u")), AfterOutput(Read("u")),
      AfterOutput(Assignment("x", ExprAdd(FactorName("u"), "+", FactorInt(1)))),
      \* var x; ! x.
      Program(Block(<<>>, <<Var("x")>>, <<>>, Write(ExprV("x")))),
      \* one ident declared twice in a block, for each pair of kinds a block can order
      Declaring(<<Const("a", 1), Const("a", 2)>>, <<>>, <<>>),
      Declaring(<<Const("a", 1)>>, <<Var("a")>>, <<>>),
      Declaring(<<Const("a", 1)>>, <<>>, <<ProcedureA(1)>>),
      Declaring(<<>>, <<Var("a"), Var("a")>>, <<>>),
      Declaring(<<>>, <<Var("a")>>, <<ProcedureA(1)>>),
      Declaring(<<>>, <<>>, <<ProcedureA(1), ProcedureA(2)>>),
      \* var x; procedure p; var x; begin x := 2; ! x end; begin x := 1; call p; ! x end.
      Program(Block(<<>>, <<Var("x")>>,
          <<Procedure("p", Block(<<>>, <<Var("x")>>, <<>>,
              Begin(<<Assignment("x", ExprN(2)), Write(ExprV("x"))>>)))>>,
          Begin(<<Assignment("x", ExprN(1)), Call("p"), Write(ExprV("x"))>>))),
      ShadowUninitializedProgram,
      \* var x; procedure p; x := x + 1;
      \* procedure q; var x; begin x := 10; call p; ! x end;
      \* begin x := 1; call q; ! x end.
      Program(Block(<<>>, <<Var("x")>>,
          <<Procedure("p", Block(<<>>, <<>>, <<>>,
              Assignment("x", ExprAdd(FactorName("x"), "+", FactorInt(1))))),
            Procedure("q", Block(<<>>, <<Var("x")>>, <<>>,
              Begin(<<Assignment("x", ExprN(10)), Call("p"), Write(ExprV("x"))>>)))>>,
          Begin(<<Assignment("x", ExprN(1)), Call("q"), Write(ExprV("x"))>>))),
      \* procedure outer; procedure inner; ! 1; begin call inner; ! 2 end;
      \* begin call outer; ! 3 end.
      Program(Block(<<>>, <<>>,
          <<Procedure("outer", Block(<<>>, <<>>,
              <<Procedure("inner", Block(<<>>, <<>>, <<>>, Write(ExprN(1))))>>,
              Begin(<<Call("inner"), Write(ExprN(2))>>)))>>,
          Begin(<<Call("outer"), Write(ExprN(3))>>))),
      \* const x = 1; var y; procedure p; const y = 2; procedure x; ! 3;
      \* begin call x; ! y end; begin y := 5; call p; ! x; ! y end.
      Program(Block(<<Const("x", 1)>>, <<Var("y")>>,
          <<Procedure("p", Block(<<Const("y", 2)>>, <<>>,
              <<Procedure("x", Block(<<>>, <<>>, <<>>, Write(ExprN(3))))>>,
              Begin(<<Call("x"), Write(ExprV("y"))>>)))>>,
          Begin(<<Assignment("y", ExprN(5)), Call("p"), Write(ExprV("x")),
                  Write(ExprV("y"))>>))),
      \* var i; procedure p; while i < 2 do i := i + 1; begin i := 0; call p; ! i end.
      Program(Block(<<>>, <<Var("i")>>,
          <<Procedure("p", Block(<<>>, <<>>, <<>>,
              While(ComparisonCondition("<", ExprV("i"), ExprN(2)),
                  Assignment("i", ExprAdd(FactorName("i"), "+", FactorInt(1))))))>>,
          Begin(<<Assignment("i", ExprN(0)), Call("p"), Write(ExprV("i"))>>))),
      \* an AST a client builds with '==', the one spelling of equality that
      \* generate_comparison lowers (to EQ)
      ComparisonProgram("==")>>

(***************************************************************************)
(* The lexer (lexer.py).  A source text is the sequence of its characters, *)
(* each a string of length one; index i of the source is element i + 1.    *)
(* A Token is (type, value): value is a str for Op, Name and Keyword, an   *)
(* int for Number (held in n) and None for EOF (the empty string here).    *)
(* The lexer object l is [s, i, current, err]: err is the exception _next  *)
(* raised ("" while none was).                                             *)
(***************************************************************************)
Token(type, value) == [type |-> type, value |-> value, n |-> 0]
\* Token.number(val)
number(val) == [type |-> "Number", value |-> "", n |-> val]

Keyword ==
    {"begin", "call", "const", "do", "end", "if", "odd", "procedure", "then", "var",
     "while"}

\* string.ascii_letters + '_'
VALID_IDENTIFIER_STARTS ==
    {"a", "b", "c", "d", "e", "f", "g", "h", "i", "j", "k", "l", "m", "n", "o", "p", "q",
     "r", "s", "t", "u", "v", "w", "x", "y", "z", "A", "B", "C", "D", "E", "F", "G", "H",
     "I", "J", "K", "L", "M", "N", "O", "P", "Q", "R", "S", "T", "U", "V", "W", "X", "Y",
     "Z", "_"}

\* string.digits, in order: the digit at index d + 1 has the value d
digits == <<"0", "1", "2", "3", "4", "5", "6", "7", "8", "9">>

\* the mutant of VALID_IDENTIFIER_CONTINUES: the digits are left out
VALID_IDENTIFIER_CONTINUES_without_digits == VALID_IDENTIFIER_STARTS

\* string.ascii_letters + string.digits + '_'
VALID_IDENTIFIER_CONTINUES ==
    VALID_IDENTIFIER_STARTS \cup {digits[d] : d \in 1..Len(digits)}

RECURSIVE _skip_whitespace(_)
_skip_whitespace(l) ==
    IF l.i < Len(l.s) /\ l.s[l.i + 1] \in {" ", "\t", "\n"}
    THEN _skip_whitespace([l EXCEPT !.i = @ + 1])
    ELSE l

\* Lexer._next together with the assignment of its result to self._current, which
\* both of its callers make; when it raises, _current is left as it was
_next(l) ==
    LET m == _skip_whitespace(l)
        c == m.s[m.i + 1]
        isdigit == {digits[d] : d \in 1..Len(digits)}
        \* the index at which a loop "while not self._eof() and self._s[self._i] in
        \* chars: self._i += 1" started at index i ends
        RECURSIVE run(_, _)
        run(i, chars) ==
            IF i < Len(m.s) /\ m.s[i + 1] \in chars THEN run(i + 1, chars) ELSE i
        \* val after the "val += self._s[self._i]" of the indices i .. j - 1
        RECURSIVE val(_, _)
        val(i, j) == IF i >= j THEN "" ELSE m.s[i + 1] \o val(i + 1, j)
        \* int(val) of the digits at the indices i .. j - 1, after the value acc of
        \* those before them
        RECURSIVE int(_, _, _)
        int(i, j, acc) ==
            IF i >= j THEN acc
            ELSE int(i + 1, j,
                     acc * 10 + (CHOOSE d \in 1..Len(digits) : digits[d] = m.s[i + 1]) - 1)
        \* self._s[self._i:self._i + 2]: a slice stops at the end of the string
        two == IF m.i + 2 <= Len(m.s) THEN c \o m.s[m.i + 2] ELSE c
    IN IF m.i >= Len(m.s) THEN [m EXCEPT !.current = Token("EOF", "")]
       ELSE IF c \in isdigit
            THEN [m EXCEPT !.i = run(m.i, isdigit),
                           !.current = number(int(m.i, run(m.i, isdigit), 0))]
       ELSE IF c \in VALID_IDENTIFIER_STARTS
            THEN LET j == run(m.i, VALID_IDENTIFIER_CONTINUES)
                 IN [m EXCEPT !.i = j,
                                !.current = IF val(m.i, j) \in Keyword
                                            THEN Token("Keyword", val(m.i, j))
                                            ELSE Token("Name", val(m.i, j))]
       ELSE IF two \in {":=", "<=", ">="}
            THEN [m EXCEPT !.i = @ + 2, !.current = Token("Op", two)]
       ELSE IF c \in {"+", "-", "*", "/", "=", "#", ",", ";", ".", "(", ")", "<", ">"}
            THEN [m EXCEPT !.i = @ + 1, !.current = Token("Op", c)]
       ELSE [m EXCEPT !.err = "ValueError: Invalid character"]

\* Lexer.__init__: when _next raises there, no lexer object comes to be
Lexer(s) == _next([s |-> s, i |-> 0, current |-> Token("EOF", ""), err |-> ""])

\* Lexer.next: the lexer after the call, and the token the call returns
next(l) == [lx |-> _next(l), token |-> l.current]

\* Lexer.peek
peek(l) == l.current

(***************************************************************************)
(* The parser (src_parser.py).  The Parser object is its lexer self.lx;    *)
(* a method takes the lexer and returns [lx, value]: the lexer after the   *)
(* call and what the call returns.  An exception a method raises is the    *)
(* err of the lexer it returns, and a method reached with an exception in  *)
(* flight does nothing.                                                    *)
(***************************************************************************)
check(l, token) ==
    IF l.err # "" THEN [lx |-> l, value |-> FALSE]
    ELSE IF peek(l) = token \/ (peek(l).type = "Name" /\ token.type = "Name")
         \* self.lx.next() inside check: when it raises, check returns nothing
         THEN Let([m \in {next(l).lx} |-> [lx |-> m, value |-> m.err = ""]])
    ELSE [lx |-> l, value |-> FALSE]

\* raise e, unless an exception is in flight already
raise(l, e) == [lx |-> IF l.err # "" THEN l ELSE [l EXCEPT !.err = e], value |-> NoNode]

RECURSIVE parse_expression(_)
RECURSIVE parse_term(_)
RECURSIVE parse_factor(_)

\* parse_identifier and parse_number are called on a token of their type
parse_factor(l) ==
    IF l.err # "" THEN raise(l, "")
    ELSE IF peek(l) = Token("Op", "(")
         THEN Let([expr \in {parse_expression(next(l).lx)} |->
              Let([closed \in {check(expr.lx, Token("Op", ")"))} |->
              IF closed.value THEN [lx |-> closed.lx, value |-> FactorExpr(expr.value)]
              ELSE raise(closed.lx, "SyntaxError: Expected \")\"")])])
    ELSE IF peek(l).type \in {"Name", "Number"}
         THEN Let([m \in {next(l).lx} |->
              IF m.err # "" THEN raise(m, "")
              ELSE [lx |-> m,
                    value |-> IF peek(l).type = "Name" THEN FactorName(peek(l).value)
                              ELSE FactorInt(peek(l).n)]])
    ELSE raise(l, "SyntaxError: Expected name or number")

\* a Term that drops the factor after an operator it has recorded
parse_term_without_factors(l) ==
    LET RECURSIVE loop(_, _, _)
        loop(m, factors, ops) ==
            Let([star \in {check(m, Token("Op", "*"))} |->
            Let([slash \in {IF star.value THEN star ELSE check(star.lx, Token("Op", "/"))} |->
            IF star.value \/ slash.value
            THEN Let([factor \in {parse_factor(slash.lx)} |->
                 IF factor.lx.err # "" THEN raise(factor.lx, "")
                 ELSE loop(factor.lx, factors,
                           Append(ops, IF star.value THEN "*" ELSE "/"))])
            ELSE IF slash.lx.err # "" THEN raise(slash.lx, "")
            ELSE [lx |-> slash.lx, value |-> Term(factors, ops)]])])
    IN Let([first \in {parse_factor(l)} |->
       IF first.lx.err # "" THEN raise(first.lx, "")
       ELSE loop(first.lx, <<first.value>>, <<>>)])

parse_term(l) ==
    LET \* the "while True" loop, entered with the lexer m and the lists so far
        RECURSIVE loop(_, _, _)
        loop(m, factors, ops) ==
            Let([star \in {check(m, Token("Op", "*"))} |->
            Let([slash \in {IF star.value THEN star ELSE check(star.lx, Token("Op", "/"))} |->
            IF star.value \/ slash.value
            THEN Let([factor \in {parse_factor(slash.lx)} |->
                 IF factor.lx.err # "" THEN raise(factor.lx, "")
                 ELSE loop(factor.lx, Append(factors, factor.value),
                           Append(ops, IF star.value THEN "*" ELSE "/"))])
            ELSE IF slash.lx.err # "" THEN raise(slash.lx, "")
            ELSE [lx |-> slash.lx, value |-> Term(factors, ops)]])])
    IN Let([first \in {parse_factor(l)} |->
       IF first.lx.err # "" THEN raise(first.lx, "")
       ELSE loop(first.lx, <<first.value>>, <<>>)])

parse_expression(l) ==
    LET \* the "while True" loop, entered with the lexer m and the lists so far
        RECURSIVE loop(_, _, _, _)
        loop(m, prefix, terms, ops) ==
            Let([add \in {check(m, Token("Op", "+"))} |->
            Let([sub \in {IF add.value THEN add ELSE check(add.lx, Token("Op", "-"))} |->
            IF add.value \/ sub.value
            THEN Let([term \in {parse_term(sub.lx)} |->
                 IF term.lx.err # "" THEN raise(term.lx, "")
                 ELSE loop(term.lx, prefix, Append(terms, term.value),
                           Append(ops, IF add.value THEN "+" ELSE "-"))])
            ELSE IF sub.lx.err # "" THEN raise(sub.lx, "")
            ELSE [lx |-> sub.lx, value |-> Expression(prefix, terms, ops)]])])
    IN Let([plus \in {check(l, Token("Op", "+"))} |->
       Let([minus \in {IF plus.value THEN plus ELSE check(plus.lx, Token("Op", "-"))} |->
       Let([first \in {parse_term(minus.lx)} |->
       IF first.lx.err # "" THEN raise(first.lx, "")
       ELSE loop(first.lx,
                 IF plus.value THEN "+" ELSE IF minus.value THEN "-" ELSE "None",
                 <<first.value>>, <<>>)])])])

\* ident = self.lx.next(): the token is taken whatever its type
parse_identifier(l) ==
    IF l.err # "" THEN [lx |-> l, value |-> ""]
    ELSE Let([ident \in {next(l)} |->
         IF ident.lx.err # "" THEN [lx |-> ident.lx, value |-> ""]
         ELSE IF ident.token.type # "Name"
              THEN [lx |-> [ident.lx EXCEPT !.err = "SyntaxError: Expected name"],
                    value |-> ""]
         ELSE [lx |-> ident.lx, value |-> ident.token.value]])

parse_number(l) ==
    IF l.err # "" THEN [lx |-> l, value |-> 0]
    ELSE Let([num \in {next(l)} |->
         IF num.lx.err # "" THEN [lx |-> num.lx, value |-> 0]
         ELSE IF num.token.type # "Number"
              THEN [lx |-> [num.lx EXCEPT !.err = "SyntaxError: Expected number"],
                    value |-> 0]
         ELSE [lx |-> num.lx, value |-> num.token.n]])

parse_odd_condition(l) ==
    Let([expr \in {parse_expression(l)} |->
    IF expr.lx.err # "" THEN raise(expr.lx, "")
    ELSE [lx |-> expr.lx, value |-> OddCondition(expr.value)]])

\* the operator is whatever token lx.next() returns, provided its type is Op
parse_comparison_condition(l) ==
    Let([left \in {parse_expression(l)} |->
    IF left.lx.err # "" THEN raise(left.lx, "")
    ELSE Let([op \in {next(left.lx)} |->
         IF op.lx.err # "" THEN raise(op.lx, "")
         ELSE IF op.token.type # "Op" THEN raise(op.lx, "SyntaxError: Expected operator")
         ELSE Let([right \in {parse_expression(op.lx)} |->
              IF right.lx.err # "" THEN raise(right.lx, "")
              ELSE [lx |-> right.lx,
                    value |-> ComparisonCondition(op.token.value, left.value,
                                                  right.value)]])])])

parse_condition(l) ==
    Let([odd \in {check(l, Token("Keyword", "odd"))} |->
    IF odd.value THEN parse_odd_condition(odd.lx)
    ELSE parse_comparison_condition(odd.lx)])

RECURSIVE parse_statement(_)

parse_begin_statement(l) ==
    LET \* the loop "while not self.check(Token.keyword('end'))", entered with the
        \* lexer m and the body so far
        RECURSIVE loop(_, _)
        loop(m, body) ==
            Let([end \in {check(m, Token("Keyword", "end"))} |->
            IF end.value THEN [lx |-> end.lx, value |-> Begin(body)]
            ELSE Let([semi \in {check(end.lx, Token("Op", ";"))} |->
                 IF ~semi.value THEN raise(semi.lx, "SyntaxError: Expected \";\"")
                 ELSE Let([stmt \in {parse_statement(semi.lx)} |->
                      IF stmt.lx.err # "" THEN raise(stmt.lx, "")
                      ELSE loop(stmt.lx, Append(body, stmt.value))])])])
    IN Let([first \in {parse_statement(l)} |->
       IF first.lx.err # "" THEN raise(first.lx, "")
       ELSE loop(first.lx, <<first.value>>)])

parse_if_statement(l) ==
    Let([cond \in {parse_condition(l)} |->
    Let([then \in {check(cond.lx, Token("Keyword", "then"))} |->
    IF ~then.value THEN raise(then.lx, "SyntaxError: Expected \"then\"")
    ELSE Let([stmt \in {parse_statement(then.lx)} |->
         IF stmt.lx.err # "" THEN raise(stmt.lx, "")
         ELSE [lx |-> stmt.lx, value |-> If(cond.value, stmt.value)]])])])

parse_while_statement(l) ==
    Let([cond \in {parse_condition(l)} |->
    Let([do \in {check(cond.lx, Token("Keyword", "do"))} |->
    IF ~do.value THEN raise(do.lx, "SyntaxError: Expected \"do\"")
    ELSE Let([stmt \in {parse_statement(do.lx)} |->
         IF stmt.lx.err # "" THEN raise(stmt.lx, "")
         ELSE [lx |-> stmt.lx, value |-> While(cond.value, stmt.value)]])])])

parse_call_statement(l) ==
    Let([ident \in {parse_identifier(l)} |->
    IF ident.lx.err # "" THEN raise(ident.lx, "")
    ELSE [lx |-> ident.lx, value |-> Call(ident.value)]])

parse_read_statement(l) ==
    Let([ident \in {parse_identifier(l)} |->
    IF ident.lx.err # "" THEN raise(ident.lx, "")
    ELSE [lx |-> ident.lx, value |-> Read(ident.value)]])

parse_write_statement(l) ==
    Let([expr \in {parse_expression(l)} |->
    IF expr.lx.err # "" THEN raise(expr.lx, "")
    ELSE [lx |-> expr.lx, value |-> Write(expr.value)]])

parse_assignment_statement(l) ==
    Let([ident \in {parse_identifier(l)} |->
    Let([becomes \in {check(ident.lx, Token("Op", ":="))} |->
    IF ~becomes.value THEN raise(becomes.lx, "SyntaxError: Expected \":=\"")
    ELSE Let([expr \in {parse_expression(becomes.lx)} |->
         IF expr.lx.err # "" THEN raise(expr.lx, "")
         ELSE [lx |-> expr.lx, value |-> Assignment(ident.value, expr.value)]])])])

\* Statement(node) is node
parse_statement(l) ==
    Let([begin \in {check(l, Token("Keyword", "begin"))} |->
    IF begin.value THEN parse_begin_statement(begin.lx)
    ELSE Let([if \in {check(begin.lx, Token("Keyword", "if"))} |->
    IF if.value THEN parse_if_statement(if.lx)
    ELSE Let([while \in {check(if.lx, Token("Keyword", "while"))} |->
    IF while.value THEN parse_while_statement(while.lx)
    ELSE Let([call \in {check(while.lx, Token("Keyword", "call"))} |->
    IF call.value THEN parse_call_statement(call.lx)
    ELSE Let([read \in {check(call.lx, Token("Op", "?"))} |->
    IF read.value THEN parse_read_statement(read.lx)
    ELSE Let([write \in {check(read.lx, Token("Op", "!"))} |->
    IF write.value THEN parse_write_statement(write.lx)
    ELSE parse_assignment_statement(write.lx)])])])])])])

parse_constants(l) ==
    LET \* the "while True" loop, entered with the lexer m and the list so far
        RECURSIVE loop(_, _)
        loop(m, consts) ==
            Let([name \in {parse_identifier(m)} |->
            Let([equals \in {check(name.lx, Token("Op", "="))} |->
            IF ~equals.value THEN raise(equals.lx, "SyntaxError: Expected \"=\"")
            ELSE Let([value \in {parse_number(equals.lx)} |->
                 Let([comma \in {check(value.lx, Token("Op", ","))} |->
                 IF comma.value
                 THEN loop(comma.lx, Append(consts, Const(name.value, value.value)))
                 ELSE Let([semi \in {check(comma.lx, Token("Op", ";"))} |->
                      IF ~semi.value THEN raise(semi.lx, "SyntaxError: Expected \";\"")
                      ELSE [lx |-> semi.lx,
                            value |-> Append(consts,
                                             Const(name.value, value.value))]])])])])])
    IN loop(l, <<>>)

parse_variables(l) ==
    LET \* the "while True" loop, entered with the lexer m and the list so far
        RECURSIVE loop(_, _)
        loop(m, variables) ==
            Let([name \in {parse_identifier(m)} |->
            Let([comma \in {check(name.lx, Token("Op", ","))} |->
            IF comma.value THEN loop(comma.lx, Append(variables, Var(name.value)))
            ELSE Let([semi \in {check(comma.lx, Token("Op", ";"))} |->
                 IF ~semi.value THEN raise(semi.lx, "SyntaxError: Expected \";\"")
                 ELSE [lx |-> semi.lx, value |-> Append(variables, Var(name.value))]])])])
    IN loop(l, <<>>)

RECURSIVE parse_block(_)

parse_procedure(l) ==
    Let([ident \in {parse_identifier(l)} |->
    Let([semi \in {check(ident.lx, Token("Op", ";"))} |->
    IF ~semi.value THEN raise(semi.lx, "SyntaxError: Expected \";\"")
    ELSE Let([block \in {parse_block(semi.lx)} |->
         Let([closing \in {check(block.lx, Token("Op", ";"))} |->
         IF ~closing.value THEN raise(closing.lx, "SyntaxError: Expected \";\"")
         ELSE [lx |-> closing.lx, value |-> Procedure(ident.value, block.value)]])])])])

parse_block(l) ==
    LET \* the loop "while self.check(Token.keyword('procedure'))", entered with
        \* the lexer m and the list so far
        RECURSIVE loop(_, _)
        loop(m, procs) ==
            Let([word \in {check(m, Token("Keyword", "procedure"))} |->
            IF ~word.value THEN [lx |-> word.lx, value |-> procs]
            ELSE Let([proc \in {parse_procedure(word.lx)} |->
                 IF proc.lx.err # "" THEN raise(proc.lx, "")
                 ELSE loop(proc.lx, Append(procs, proc.value))])])
    IN Let([const \in {check(l, Token("Keyword", "const"))} |->
       Let([consts \in {IF const.value THEN parse_constants(const.lx)
           ELSE [lx |-> const.lx, value |-> <<>>]} |->
       Let([var \in {check(consts.lx, Token("Keyword", "var"))} |->
       Let([variables \in {IF var.value THEN parse_variables(var.lx)
           ELSE [lx |-> var.lx, value |-> <<>>]} |->
       Let([procs \in {loop(variables.lx, <<>>)} |->
       Let([stmt \in {parse_statement(procs.lx)} |->
       IF stmt.lx.err # "" THEN raise(stmt.lx, "")
       ELSE [lx |-> stmt.lx,
             value |-> Block(consts.value, variables.value, procs.value,
                             stmt.value)]])])])])])])

\* the Program is returned once check has taken the ".": that the input ends
\* there is not tested
parse_program(l) ==
    Let([block \in {parse_block(l)} |->
    Let([dot \in {check(block.lx, Token("Op", "."))} |->
    IF ~dot.value THEN raise(dot.lx, "SyntaxError: Expected \".\"")
    ELSE [lx |-> dot.lx, value |-> Program(block.value)]])])

\* the source texts the lexer and the parser are run on, each with its text in
\* the comment before it
Sources ==
    <<
      \* ""
      <<>>,
      \* " "
      <<" ">>,
      \* "a + 1"
      <<"a", " ", "+", " ", "1">>,
      \* "+-*/=#,;.()<>"
      <<"+", "-", "*", "/", "=", "#", ",", ";", ".", "(", ")", "<", ">">>,
      \* ":=<=>="
      <<":", "=", "<", "=", ">", "=">>,
      \* "<= >="
      <<"<", "=", " ", ">", "=">>,
      \* "< ="
      <<"<", " ", "=">>,
      \* "?"
      <<"?">>,
      \* "!"
      <<"!">>,
      \* "? a"
      <<"?", " ", "a">>,
      \* "! 1"
      <<"!", " ", "1">>,
      \* ":"
      <<":">>,
      \* ": ="
      <<":", " ", "=">>,
      \* "a:b"
      <<"a", ":", "b">>,
      \* "$"
      <<"$">>,
      \* "a $"
      <<"a", " ", "$">>,
      \* "if if_0"
      <<"i", "f", " ", "i", "f", "_", "0">>,
      \* "if_0"
      <<"i", "f", "_", "0">>,
      \* "iffy"
      <<"i", "f", "f", "y">>,
      \* "If"
      <<"I", "f">>,
      \* "while1 x_1 _y"
      <<"w", "h", "i", "l", "e", "1", " ", "x", "_", "1", " ", "_", "y">>,
      \* "  var\n x "
      <<" ", " ", "v", "a", "r", "\n", " ", "x", " ">>,
      \* "begin\tend"
      <<"b", "e", "g", "i", "n", "\t", "e", "n", "d">>,
      \* "12ab"
      <<"1", "2", "a", "b">>,
      \* "007"
      <<"0", "0", "7">>,
      \* "begin"
      <<"b", "e", "g", "i", "n">>,
      \* "call"
      <<"c", "a", "l", "l">>,
      \* "const"
      <<"c", "o", "n", "s", "t">>,
      \* "do"
      <<"d", "o">>,
      \* "end"
      <<"e", "n", "d">>,
      \* "if"
      <<"i", "f">>,
      \* "odd"
      <<"o", "d", "d">>,
      \* "procedure"
      <<"p", "r", "o", "c", "e", "d", "u", "r", "e">>,
      \* "then"
      <<"t", "h", "e", "n">>,
      \* "var"
      <<"v", "a", "r">>,
      \* "while"
      <<"w", "h", "i", "l", "e">>,
      \* "1"
      <<"1">>,
      \* "- 1 + 2"
      <<"-", " ", "1", " ", "+", " ", "2">>,
      \* "a * (b + 1) / 2 - c"
      <<"a", " ", "*", " ", "(", "b", " ", "+", " ", "1", ")", " ", "/", " ", "2", " ",
        "-", " ", "c">>,
      \* "+a-b"
      <<"+", "a", "-", "b">>,
      \* "(1"
      <<"(", "1">>,
      \* "1 +"
      <<"1", " ", "+">>,
      \* "1 + * 2"
      <<"1", " ", "+", " ", "*", " ", "2">>,
      \* "()"
      <<"(", ")">>,
      \* "a * * b"
      <<"a", " ", "*", " ", "*", " ", "b">>,
      \* "((7))"
      <<"(", "(", "7", ")", ")">>,
      \* "1 2"
      <<"1", " ", "2">>,
      \* "+ - 1"
      <<"+", " ", "-", " ", "1">>,
      \* "a := - 1 + 2."
      <<"a", " ", ":", "=", " ", "-", " ", "1", " ", "+", " ", "2", ".">>,
      \* "a b $"
      <<"a", " ", "b", " ", "$">>,
      \* "a ! b"
      <<"a", " ", "!", " ", "b">>,
      \* "x<=y"
      <<"x", "<", "=", "y">>,
      \* "var i, s;"
      <<"v", "a", "r", " ", "i", ",", " ", "s", ";">>
    >>

\* the source texts of programs, which Parser(source).parse() is run on
ProgramTexts ==
    <<
      \* "a := - 1 + 2."
      <<"a", " ", ":", "=", " ", "-", " ", "1", " ", "+", " ", "2", ".">>,
      \* "var a; a := - 1 + 2."
      <<"v", "a", "r", " ", "a", ";", " ", "a", " ", ":", "=", " ", "-", " ", "1", " ",
        "+", " ", "2", ".">>,
      \* "var a; a := - 1 - 2 * 3."
      <<"v", "a", "r", " ", "a", ";", " ", "a", " ", ":", "=", " ", "-", " ", "1", " ",
        "-", " ", "2", " ", "*", " ", "3", ".">>,
      \* "a := 1. b"
      <<"a", " ", ":", "=", " ", "1", ".", " ", "b">>,
      \* "a := 1 . 2"
      <<"a", " ", ":", "=", " ", "1", " ", ".", " ", "2">>,
      \* "a := 1.."
      <<"a", " ", ":", "=", " ", "1", ".", ".">>,
      \* "a := 1. \n"
      <<"a", " ", ":", "=", " ", "1", ".", " ", "\n">>,
      \* "a := 1. $"
      <<"a", " ", ":", "=", " ", "1", ".", " ", "$">>,
      \* "a := 1"
      <<"a", " ", ":", "=", " ", "1">>,
      \* "var a; begin a := 1 end. var"
      <<"v", "a", "r", " ", "a", ";", " ", "b", "e", "g", "i", "n", " ", "a", " ", ":",
        "=", " ", "1", " ", "e", "n", "d", ".", " ", "v", "a", "r">>,
      \* "if a=b then c:=1."
      <<"i", "f", " ", "a", "=", "b", " ", "t", "h", "e", "n", " ", "c", ":", "=", "1",
        ".">>,
      \* "if a#b then c:=1."
      <<"i", "f", " ", "a", "#", "b", " ", "t", "h", "e", "n", " ", "c", ":", "=", "1",
        ".">>,
      \* "if a<b then c:=1."
      <<"i", "f", " ", "a", "<", "b", " ", "t", "h", "e", "n", " ", "c", ":", "=", "1",
        ".">>,
      \* "if a<=b then c:=1."
      <<"i", "f", " ", "a", "<", "=", "b", " ", "t", "h", "e", "n", " ", "c", ":", "=",
        "1", ".">>,
      \* "if a>b then c:=1."
      <<"i", "f", " ", "a", ">", "b", " ", "t", "h", "e", "n", " ", "c", ":", "=", "1",
        ".">>,
      \* "if a>=b then c:=1."
      <<"i", "f", " ", "a", ">", "=", "b", " ", "t", "h", "e", "n", " ", "c", ":", "=",
        "1", ".">>,
      \* "if a;b then c:=1."
      <<"i", "f", " ", "a", ";", "b", " ", "t", "h", "e", "n", " ", "c", ":", "=", "1",
        ".">>,
      \* "if a,b then c:=1."
      <<"i", "f", " ", "a", ",", "b", " ", "t", "h", "e", "n", " ", "c", ":", "=", "1",
        ".">>,
      \* "if a:=b then c:=1."
      <<"i", "f", " ", "a", ":", "=", "b", " ", "t", "h", "e", "n", " ", "c", ":", "=",
        "1", ".">>,
      \* "if a(b then c:=1."
      <<"i", "f", " ", "a", "(", "b", " ", "t", "h", "e", "n", " ", "c", ":", "=", "1",
        ".">>,
      \* "if a)b then c:=1."
      <<"i", "f", " ", "a", ")", "b", " ", "t", "h", "e", "n", " ", "c", ":", "=", "1",
        ".">>,
      \* "if a.b then c:=1."
      <<"i", "f", " ", "a", ".", "b", " ", "t", "h", "e", "n", " ", "c", ":", "=", "1",
        ".">>,
      \* "if a b then c:=1."
      <<"i", "f", " ", "a", " ", "b", " ", "t", "h", "e", "n", " ", "c", ":", "=", "1",
        ".">>,
      \* "if a 1 then c:=1."
      <<"i", "f", " ", "a", " ", "1", " ", "t", "h", "e", "n", " ", "c", ":", "=", "1",
        ".">>,
      \* "if a then c:=1."
      <<"i", "f", " ", "a", " ", "t", "h", "e", "n", " ", "c", ":", "=", "1", ".">>,
      \* "if odd a then c:=1."
      <<"i", "f", " ", "o", "d", "d", " ", "a", " ", "t", "h", "e", "n", " ", "c", ":",
        "=", "1", ".">>,
      \* "const k = 3; var x; procedure p; x := k; begin call p; while odd x do x := x - 1 end."
      <<"c", "o", "n", "s", "t", " ", "k", " ", "=", " ", "3", ";", " ", "v", "a", "r",
        " ", "x", ";", " ", "p", "r", "o", "c", "e", "d", "u", "r", "e", " ", "p", ";",
        " ", "x", " ", ":", "=", " ", "k", ";", " ", "b", "e", "g", "i", "n", " ", "c",
        "a", "l", "l", " ", "p", ";", " ", "w", "h", "i", "l", "e", " ", "o", "d", "d",
        " ", "x", " ", "d", "o", " ", "x", " ", ":", "=", " ", "x", " ", "-", " ", "1",
        " ", "e", "n", "d", ".">>
    >>

(***************************************************************************)
(* The state machine.  ast is the parsed program; icg the generator object *)
(* ([buf, err] and calls, the number of generate() calls made); vm the     *)
(* ICInterpreter built on the generated list ("unbuilt" before that) and   *)
(* interp the ASTInterpreter built on the same AST; input the integers     *)
(* typed on the standard input channel so far, the same for both runs.     *)
(* frames is a history of the VM: for every CALL that has not returned,    *)
(* its index and the depths of the value stack and of the environment      *)
(* stack before it.  lx is the Lexer object ([s, i, current, err]) and     *)
(* calls the calls made on the lexer, the parser and the generator so far, *)
(* each with what it returned or raised; the pipeline uses neither.        *)
(***************************************************************************)
Init ==
    /\ \E k \in 1..(Len(Programs) + Len(ProgramTexts)), debug \in BOOLEAN :
          IF k <= Len(Programs)
          THEN /\ ast = Programs[k]
               /\ icg = [buf |-> <<>>, err |-> "", calls |-> 0]
               /\ interp = [NewInterp EXCEPT !.debug = debug]
               /\ lx = [Lexer(<<>>) EXCEPT !.err = "unbuilt"]
          ELSE /\ ast = NoNode
               /\ icg = [buf |-> <<>>, err |-> "unbuilt", calls |-> 0]
               /\ interp = [NewInterp EXCEPT !.debug = debug, !.status = "unbuilt"]
               /\ lx = Lexer(ProgramTexts[k - Len(Programs)])
    /\ vm = [NewVM(<<>>) EXCEPT !.status = "unbuilt"]
    /\ input = <<>>
    /\ frames = <<>>
    /\ calls = <<>>

\* ast = Parser(source).parse(), the first call made on a parser; on the AST it
\* returns the generator and the AST interpreter are constructed
ParseProgram ==
    /\ lx.err = ""
    /\ calls = <<>>
    /\ ast = NoNode
    /\ \E r \in {parse_program(lx)} :
          /\ lx' = r.lx
          /\ calls' = <<[op |-> "parse_program", raised |-> r.lx.err, value |-> r.value]>>
          /\ ast' = r.value
          /\ icg' = IF r.lx.err = "" THEN [buf |-> <<>>, err |-> "", calls |-> 0] ELSE icg
          /\ interp' = IF r.lx.err = "" THEN [interp EXCEPT !.status = "running"]
                       ELSE interp
    /\ UNCHANGED <<vm, input, frames>>

\* generator = icg.ICG(ast); ic = generator.generate(); vm = ICInterpreter(ic,
\* debug=...): a run is configured once, both executors get the same debug argument
Generate ==
    /\ icg.calls = 0
    /\ icg.err = ""
    /\ icg' = [generate_program(ast, icg) EXCEPT !.calls = @ + 1]
    /\ vm' = IF icg'.err = "" THEN [NewVM(icg'.buf) EXCEPT !.debug = interp.debug] ELSE vm
    /\ UNCHANGED <<ast, interp, input, frames, lx, calls>>

\* the run loop is about to execute an instruction whose op is in ops
VMAt(ops) == vm.status = "running" /\ CurrentOp(vm) \in ops

VMArith ==
    /\ VMAt({"add", "sub", "mul", "neg"})
    /\ vm' = Step(vm, 0)
    /\ UNCHANGED <<ast, icg, interp, input, frames, lx, calls>>

VMDiv ==
    /\ VMAt({"div"})
    /\ vm' = Step(vm, 0)
    /\ UNCHANGED <<ast, icg, interp, input, frames, lx, calls>>

VMCompare ==
    /\ VMAt({"eq", "ne", "lt", "le", "gt", "ge", "odd"})
    /\ vm' = Step(vm, 0)
    /\ UNCHANGED <<ast, icg, interp, input, frames, lx, calls>>

VMLoad ==
    /\ VMAt({"load"})
    /\ vm' = Step(vm, 0)
    /\ UNCHANGED <<ast, icg, interp, input, frames, lx, calls>>

VMStore ==
    /\ VMAt({"store"})
    /\ vm' = Step(vm, 0)
    /\ UNCHANGED <<ast, icg, interp, input, frames, lx, calls>>

VMLit ==
    /\ VMAt({"lit"})
    /\ vm' = Step(vm, 0)
    /\ UNCHANGED <<ast, icg, interp, input, frames, lx, calls>>

\* frames records the activation the CALL opens: where the CALL is, and the depth
\* of the value stack and of the environment stack it found
VMCall ==
    /\ VMAt({"call"})
    /\ Len(vm.env) < MaxEnvDepth
    /\ vm' = Step(vm, 0)
    /\ frames' = IF vm'.status # "running" THEN frames
                 ELSE Append(frames, [at |-> vm.pc, depth |-> Len(vm.stack),
                                      envs |-> Len(vm.env)])
    /\ UNCHANGED <<ast, icg, interp, input, lx, calls>>

\* a RET that succeeds closes the activation opened last
VMRet ==
    /\ VMAt({"ret"})
    /\ vm' = Step(vm, 0)
    /\ frames' = IF vm'.status # "running" \/ frames = <<>> THEN frames
                 ELSE SubSeq(frames, 1, Len(frames) - 1)
    /\ UNCHANGED <<ast, icg, interp, input, lx, calls>>

VMJmp ==
    /\ VMAt({"jmp"})
    /\ vm' = Step(vm, 0)
    /\ UNCHANGED <<ast, icg, interp, input, frames, lx, calls>>

VMJpf ==
    /\ VMAt({"jpf"})
    /\ vm' = Step(vm, 0)
    /\ UNCHANGED <<ast, icg, interp, input, frames, lx, calls>>

VMVar ==
    /\ VMAt({"var"})
    /\ vm' = Step(vm, 0)
    /\ UNCHANGED <<ast, icg, interp, input, frames, lx, calls>>

VMConst ==
    /\ VMAt({"const"})
    /\ vm' = Step(vm, 0)
    /\ UNCHANGED <<ast, icg, interp, input, frames, lx, calls>>

VMProc ==
    /\ VMAt({"proc"})
    /\ vm' = Step(vm, 0)
    /\ UNCHANGED <<ast, icg, interp, input, frames, lx, calls>>

VMOutput ==
    /\ VMAt({"output"})
    /\ vm' = Step(vm, 0)
    /\ UNCHANGED <<ast, icg, interp, input, frames, lx, calls>>

\* the loop is left: HALT's break, or the IndexError of fetching past the list
VMHalt ==
    /\ VMAt({"halt", ""})
    /\ vm' = Step(vm, 0)
    /\ UNCHANGED <<ast, icg, interp, input, frames, lx, calls>>

\* the integer the k-th read of the channel returns: the one typed, or a new one
Typed(k, v) ==
    IF k < Len(input) THEN v = input[k + 1] /\ UNCHANGED input
    ELSE Len(input) < MaxReads /\ input' = Append(input, v)

VMInput ==
    /\ VMAt({"input"})
    /\ \E v \in InputVals : Typed(vm.reads, v) /\ vm' = Step(vm, v)
    /\ UNCHANGED <<ast, icg, interp, frames, lx, calls>>

VMNext ==
    \/ VMArith \/ VMDiv \/ VMCompare \/ VMLoad \/ VMStore \/ VMLit \/ VMCall \/ VMRet
    \/ VMJmp \/ VMJpf \/ VMVar \/ VMConst \/ VMProc \/ VMInput \/ VMOutput \/ VMHalt

\* the interpreter is about to take up an item of kind k
AstAt(k) == interp.status = "running" /\ Head(interp.cont).k = k

AstBlock ==
    /\ AstAt("block")
    /\ interp' = After(interp, interpret_block(ast, Rest(interp), Head(interp.cont).path))
    /\ UNCHANGED <<ast, icg, vm, input, frames, lx, calls>>

AstBlockExit ==
    /\ AstAt("pop")
    /\ interp' = After(interp, interpret_block_exit(Rest(interp)))
    /\ UNCHANGED <<ast, icg, vm, input, frames, lx, calls>>

AstConst ==
    /\ AstAt("const")
    /\ interp' = After(interp, interpret_const(Rest(interp), Head(interp.cont).node))
    /\ UNCHANGED <<ast, icg, vm, input, frames, lx, calls>>

AstVar ==
    /\ AstAt("var")
    /\ interp' = After(interp, interpret_var(Rest(interp), Head(interp.cont).node))
    /\ UNCHANGED <<ast, icg, vm, input, frames, lx, calls>>

AstProcedure ==
    /\ AstAt("proc")
    /\ interp' = After(interp, interpret_procedure(ast, Rest(interp), Head(interp.cont).path))
    /\ UNCHANGED <<ast, icg, vm, input, frames, lx, calls>>

AstAssignment ==
    /\ AstAt("Assignment")
    /\ interp' = After(interp, interpret_assignment(Rest(interp), Head(interp.cont).node))
    /\ UNCHANGED <<ast, icg, vm, input, frames, lx, calls>>

AstCall ==
    /\ AstAt("Call")
    /\ Len(interp.stack) <= MaxEnvDepth
    /\ interp' = After(interp, interpret_call(Rest(interp), Head(interp.cont).node))
    /\ UNCHANGED <<ast, icg, vm, input, frames, lx, calls>>

AstIf ==
    /\ AstAt("If")
    /\ interp' = After(interp, interpret_if(ast, Rest(interp), Head(interp.cont).node))
    /\ UNCHANGED <<ast, icg, vm, input, frames, lx, calls>>

AstWhile ==
    /\ AstAt("While")
    /\ interp' = After(interp, interpret_while(ast, Rest(interp), Head(interp.cont).node))
    /\ UNCHANGED <<ast, icg, vm, input, frames, lx, calls>>

AstBegin ==
    /\ AstAt("Begin")
    /\ interp' = After(interp, interpret_begin(Rest(interp), Head(interp.cont).node))
    /\ UNCHANGED <<ast, icg, vm, input, frames, lx, calls>>

AstWrite ==
    /\ AstAt("Write")
    /\ interp' = After(interp, interpret_write(Rest(interp), Head(interp.cont).node))
    /\ UNCHANGED <<ast, icg, vm, input, frames, lx, calls>>

\* input() is called only once the name resolved to a Var: a Read that raises
\* before that reads nothing
AstRead ==
    /\ AstAt("Read")
    /\ \E v \in InputVals :
          /\ interp' = After(interp, interpret_read(Rest(interp), Head(interp.cont).node, v))
          /\ IF interp'.reads = interp.reads THEN UNCHANGED input
             ELSE Typed(interp.reads, v)
    /\ UNCHANGED <<ast, icg, vm, frames, lx, calls>>

AstNext ==
    \/ AstBlock \/ AstBlockExit \/ AstConst \/ AstVar \/ AstProcedure \/ AstAssignment
    \/ AstCall \/ AstIf \/ AstWhile \/ AstBegin \/ AstRead \/ AstWrite

Next == ParseProgram \/ Generate \/ VMNext \/ AstNext

Spec == Init /\ [][Next]_vars

\* run() is a loop that nothing suspends: a VM that can execute an instruction does
FairSpec == Spec /\ WF_vars(VMNext)

(***************************************************************************)
(* The front end and the generator taken by themselves: a Lexer (and the   *)
(* Parser that owns it) constructed on a source text, or an ICG            *)
(* constructed on an AST, and the calls a client makes on it.  calls is    *)
(* the history of those calls: [op, raised, value] is a call of op that    *)
(* returned value, or raised the exception raised.  An object that is not  *)
(* constructed in a run has the err "unbuilt".                             *)
(***************************************************************************)
UnitInit ==
    /\ \E k \in 1..(Len(Sources) + Len(Programs)) :
          IF k <= Len(Sources)
          THEN /\ lx = Lexer(Sources[k])
               /\ ast = NoNode
               /\ icg = [buf |-> <<>>, err |-> "unbuilt", calls |-> 0]
          ELSE /\ lx = [Lexer(<<>>) EXCEPT !.err = "unbuilt"]
               /\ ast = Programs[k - Len(Sources)]
               /\ icg = [buf |-> <<>>, err |-> "", calls |-> 0]
    /\ vm = [NewVM(<<>>) EXCEPT !.status = "unbuilt"]
    /\ interp = [NewInterp EXCEPT !.status = "unbuilt"]
    /\ input = <<>>
    /\ frames = <<>>
    /\ calls = <<>>

\* token = lexer.next(), until EndOfInput has been returned MaxEof times
LexerNext ==
    /\ lx.err = ""
    /\ Cardinality({k \in DOMAIN calls :
                        calls[k].op = "next" /\ calls[k].value.type = "EOF"}) < MaxEof
    /\ lx' = next(lx).lx
    /\ calls' = Append(calls, [op |-> "next", raised |-> lx'.err,
                               value |-> IF lx'.err = "" THEN next(lx).token ELSE NoNode])
    /\ UNCHANGED <<ast, icg, vm, interp, input, frames>>

\* token = lexer.peek(), at most MaxPeeks times in a run
LexerPeek ==
    /\ lx.err = ""
    /\ Cardinality({k \in DOMAIN calls : calls[k].op = "peek"}) < MaxPeeks
    /\ calls' = Append(calls, [op |-> "peek", raised |-> "", value |-> peek(lx)])
    /\ UNCHANGED <<ast, icg, vm, interp, input, frames, lx>>

\* the tokens check is called with
Requested == {Token("Op", ";"), Token("Keyword", "begin"), Token("Name", "")}

\* parser.check(token), wherever the lexer stands; the value of the call is the
\* token asked for and what check returned
ParserCheck ==
    /\ lx.err = ""
    /\ \A k \in DOMAIN calls : calls[k].op \in {"peek", "next"}
    /\ \E token \in Requested : \E r \in {check(lx, token)} :
          /\ lx' = r.lx
          /\ calls' = Append(calls, [op |-> "check", raised |-> r.lx.err,
                                     value |-> [token |-> token, result |-> r.value]])
    /\ UNCHANGED <<ast, icg, vm, interp, input, frames>>

\* expr = parser.parse_expression(), wherever the lexer stands; a run calls one
\* method of the parser, once
ParseExpression ==
    /\ lx.err = ""
    /\ \A k \in DOMAIN calls : calls[k].op \in {"peek", "next"}
    /\ \E r \in {parse_expression(lx)} :
          /\ lx' = r.lx
          /\ calls' = Append(calls, [op |-> "parse_expression", raised |-> r.lx.err,
                                     value |-> r.value])
    /\ UNCHANGED <<ast, icg, vm, interp, input, frames>>

\* ic = generator.generate(): generate_program(self.ast), then return self.buf
ICGGenerate ==
    /\ icg.err # "unbuilt"
    /\ Len(calls) < MaxGenerate
    /\ icg' = [generate_program(ast, [icg EXCEPT !.err = ""]) EXCEPT !.calls = @ + 1]
    /\ calls' = Append(calls, [op |-> "generate", raised |-> icg'.err,
                               value |-> IF icg'.err = "" THEN icg'.buf ELSE <<>>])
    /\ UNCHANGED <<ast, vm, interp, input, frames, lx>>

\* generator = icg.ICG(ast): a new instance on the same AST, after a generate()
ICGNew ==
    /\ icg.err # "unbuilt"
    /\ icg.calls > 0
    /\ Len(calls) < MaxGenerate
    /\ icg' = [buf |-> <<>>, err |-> "", calls |-> 0]
    /\ UNCHANGED <<ast, vm, interp, input, frames, lx, calls>>

UnitNext ==
    \/ LexerNext \/ LexerPeek \/ ParserCheck \/ ParseExpression \/ ICGGenerate \/ ICGNew

UnitSpec == UnitInit /\ [][UnitNext]_vars

(***************************************************************************)
(* Vocabulary of the properties.  The name resolution is restated here     *)
(* from its description (innermost table first, first entry within a       *)
(* table), independently of retrieve.                                      *)
(***************************************************************************)
\* table holds an entry for ident
Holds(table, ident) == \E i \in 1..Len(table) : table[i].ident = ident

\* ident is declared in some table of the environment stack env
Declared(env, ident) == \E e \in 1..Len(env) : Holds(env[e], ident)

\* the entry ident denotes in env: of the innermost table that holds it, the first
Denoted(env, ident) ==
    LET e == CHOOSE e \in 1..Len(env) :
                 Holds(env[e], ident) /\ \A f \in (e + 1)..Len(env) : ~Holds(env[f], ident)
        i == CHOOSE i \in 1..Len(env[e]) :
                 env[e][i].ident = ident /\ \A j \in 1..(i - 1) : env[e][j].ident # ident
    IN env[e][i]

\* the instruction the VM is about to execute, and the one it executed last
CurrentIR == vm.ic[vm.pc + 1]

\* the value stack of the VM without its n topmost values
Below(n) == SubSeq(vm.stack, 1, Len(vm.stack) - n)

\* the statement (or declaration) the AST interpreter is about to interpret
CurrentNode == Head(interp.cont).node

\* the factor an expression evaluates first
RECURSIVE LeadingFactor(_)
LeadingFactor(expr) ==
    IF expr.terms[1].factors[1].k = "expr" THEN LeadingFactor(expr.terms[1].factors[1].expr)
    ELSE expr.terms[1].factors[1]

\* the AST interpreter is about to evaluate an expression that begins by loading ident:
\* a Write, or an Assignment whose target is a Var
AstLoads(ident) ==
    /\ interp.status = "running"
    /\ \/ Head(interp.cont).k = "Write"
       \/ /\ Head(interp.cont).k = "Assignment"
          /\ Declared(interp.stack, CurrentNode.ident)
          /\ Denoted(interp.stack, CurrentNode.ident).type = "var"
    /\ LeadingFactor(CurrentNode.expr).k = "str"
    /\ LeadingFactor(CurrentNode.expr).ident = ident

\* every identifier a program of the corpus mentions
Idents == {"a", "b", "i", "k", "n", "p", "q", "r", "s", "u", "x", "y", "fact", "inner", "outer"}

\* the generation and the run of the generated code are over
PipelineEnded == icg.calls = 1 /\ (icg.err # "" \/ vm.status # "running")

\* what the pipeline has written, as the values print() was given
PipelineOut == [i \in 1..Len(vm.out) |-> IntV(vm.out[i])]

C3_SumOfSquaresHaltsWith5And55 ==
    /\ [](ast = SumSquaresProgram /\ icg.calls = 1 => icg.err = "" /\ vm.status # "unbuilt")
    /\ [](ast = SumSquaresProgram /\ vm.status = "halted" =>
            /\ Len(vm.env) = 1
            /\ Denoted(vm.env, "i").vk = "int" /\ Denoted(vm.env, "i").value = 5
            /\ Denoted(vm.env, "s").vk = "int" /\ Denoted(vm.env, "s").value = 55)
    /\ [][ast = SumSquaresProgram /\ VMJpf =>
            /\ vm'.status = "running"
            /\ (vm'.pc = vm.pc + 1) <=> (Denoted(vm.env, "i").value < 5)]_vars
    /\ [][ast = SumSquaresProgram /\ VMJmp =>
            /\ vm'.status = "running"
            /\ SubSeq(vm.ic, vm'.pc + 1, vm'.pc + 4) =
                   <<IRStr("load", "i"), IRInt("lit", 5), IR("lt"),
                     IRInt("jpf", vm.pc + 1)>>]_vars
    /\ (ast = SumSquaresProgram /\ vm.status = "running") ~> (vm.status = "halted")

\* the loop has run to its end
C3_Witness ==
    /\ ast = SumSquaresProgram
    /\ vm.status = "halted"
    /\ Denoted(vm.env, "i").value = 5
    /\ Denoted(vm.env, "s").value = 55

(***************************************************************************)
(* C4: for a ComparisonCondition whose op is one of = # < <= > >= the      *)
(* generator emits the code of lhs, the code of rhs and then exactly one   *)
(* comparison instruction, EQ NE LT LE GT GE in that order of operators,   *)
(* and it raises the invalid-operator error only for another op.  Stated   *)
(* of the programs "if a op 1 then ...": the generated list holds the      *)
(* three parts in a row, followed by the JPF of the if.                    *)
(***************************************************************************)
GrammarIROp(op) ==
    CASE op = "=" -> "eq"
      [] op = "#" -> "ne"
      [] op = "<" -> "lt"
      [] op = "<=" -> "le"
      [] op = ">" -> "gt"
      [] op = ">=" -> "ge"

\* the code the generator emits for expr alone
CodeOf(expr) == generate_expression(expr, [buf |-> <<>>, err |-> ""]).buf

C4_ComparisonLowersEveryGrammarOperator ==
    \A op \in RelOps \cup {";"} :
        (ast = ComparisonProgram(op) /\ icg.calls = 1) =>
            LET comp == ast.block.stmt.body[2].cond
                code == CodeOf(comp.lhs) \o CodeOf(comp.rhs) \o <<IR(GrammarIROp(op))>>
            IN IF op \in RelOps
               THEN /\ icg.err = ""
                    /\ \E at \in 0..Len(icg.buf) :
                          /\ SubSeq(icg.buf, at + 1, at + Len(code)) = code
                          /\ at + Len(code) < Len(icg.buf)
                          /\ icg.buf[at + Len(code) + 1].op = "jpf"
               ELSE icg.err = "ValueError: Invalid comparison operator"

(***************************************************************************)
(* C5: DIV with a non-zero divisor pops the divisor and the dividend and   *)
(* pushes the quotient truncated toward zero, whatever the signs.          *)
(***************************************************************************)
Abs(n) == IF n < 0 THEN 0 - n ELSE n

\* the quotient of a by b truncated toward zero
TruncatedQuotient(a, b) ==
    IF (a < 0) = (b < 0) THEN Abs(a) \div Abs(b) ELSE 0 - (Abs(a) \div Abs(b))

C5_DivTruncatesTowardZero ==
    [][(VMDiv /\ Len(vm.stack) >= 2 /\ vm.stack[Len(vm.stack)] # 0) =>
          /\ vm'.status = "running"
          /\ vm'.stack = Append(Below(2), TruncatedQuotient(vm.stack[Len(vm.stack) - 1],
                                                           vm.stack[Len(vm.stack)]))]_vars

(***************************************************************************)
(* C6: DIV with a zero divisor fails with the division-by-zero error and   *)
(* pushes nothing (the two operands are popped, environments and output    *)
(* are as they were); a VM that failed so executes nothing more.  For      *)
(* "var a; begin a := 1 / 0 end." no STORE is ever executed, a never has a *)
(* value and HALT is never reached.                                        *)
(***************************************************************************)
C6_DivByZeroStopsTheRun ==
    /\ [][(VMDiv /\ Len(vm.stack) >= 2 /\ vm.stack[Len(vm.stack)] = 0) =>
            /\ vm'.status = "ZeroDivisionError"
            /\ vm'.stack = Below(2)
            /\ vm'.env = vm.env
            /\ vm'.out = vm.out]_vars
    /\ [][vm.status = "ZeroDivisionError" => vm' = vm]_vars
    /\ [][ast = DivZeroProgram => ~VMStore]_vars
    /\ [](ast = DivZeroProgram =>
            /\ vm.status # "halted"
            /\ Declared(vm.env, "a") => Denoted(vm.env, "a").vk = "none")

\* the run of "a := 1 / 0" has failed in DIV, a declared and without a value
C6_Witness ==
    /\ ast = DivZeroProgram
    /\ vm.status = "ZeroDivisionError"
    /\ vm.ic[vm.pc].op = "div"
    /\ vm.ic[vm.pc + 1] = IRStr("store", "a")
    /\ Declared(vm.env, "a")
    /\ Denoted(vm.env, "a").vk = "none"

(***************************************************************************)
(* C7: in the VM and in the AST interpreter alike, assigning (STORE,       *)
(* Assignment, Read) to a name that denotes a Const or a Proc, calling a   *)
(* name that denotes a Const or a Var, and loading (LOAD, an identifier    *)
(* factor) a name that denotes a Proc each fail with a kind-mismatch error *)
(* and leave every environment entry as it was; and for                    *)
(* "const k = 3; begin k := 4 end." neither run completes and k is 3       *)
(* wherever it is declared.                                                *)
(***************************************************************************)
KindMismatch ==
    {"Exception: not a variable", "Exception: call a non-procedure",
     "Exception: load a procedure", "TypeError: not a variable", "TypeError: not a procedure"}

\* the VM failed with a kind-mismatch error, the environments as they were
VmKindMismatch == vm'.status \in KindMismatch /\ vm'.env = vm.env

\* the AST interpreter failed with a kind-mismatch error, the environments as they were
AstKindMismatch == interp'.status \in KindMismatch /\ interp'.stack = interp.stack

C7_KindMismatchFailsInBothExecutors ==
    /\ [][/\ (VMStore /\ Declared(vm.env, CurrentIR.s)
                /\ Denoted(vm.env, CurrentIR.s).type # "var") => VmKindMismatch
          /\ (VMCall /\ Declared(vm.env, CurrentIR.s)
                /\ Denoted(vm.env, CurrentIR.s).type # "proc") => VmKindMismatch
          /\ (VMLoad /\ Declared(vm.env, CurrentIR.s)
                /\ Denoted(vm.env, CurrentIR.s).type = "proc") => VmKindMismatch
          /\ ((AstAssignment \/ AstRead) /\ Declared(interp.stack, CurrentNode.ident)
                /\ Denoted(interp.stack, CurrentNode.ident).type # "var") => AstKindMismatch
          /\ (AstCall /\ Declared(interp.stack, CurrentNode.ident)
                /\ Denoted(interp.stack, CurrentNode.ident).type # "proc") => AstKindMismatch
          /\ \A ident \in Idents :
                ((AstWrite \/ AstAssignment) /\ AstLoads(ident)
                   /\ Declared(interp.stack, ident)
                   /\ Denoted(interp.stack, ident).type = "proc") => AstKindMismatch]_vars
    /\ [](ast = ConstAssignProgram =>
            /\ vm.status # "halted"
            /\ interp.status # "done"
            /\ Declared(vm.env, "k") => Denoted(vm.env, "k").value = 3
            /\ Declared(interp.stack, "k") => Denoted(interp.stack, "k").value = 3)

(***************************************************************************)
(* C8: in the VM and in the AST interpreter alike, a load, a store or a    *)
(* call of a name declared in no table of the environment stack fails with *)
(* the error the executor has for an unknown name, and the environments    *)
(* and the output written so far are as they were.  The error is KeyError  *)
(* in the VM, NameError for an Assignment or a Read, and the               *)
(* AttributeError of dereferencing the None the search returned for a Call *)
(* and for an identifier factor.                                           *)
(***************************************************************************)
\* the VM failed on an unknown name, environments and output as they were
VmUndefined == vm'.status = "KeyError: not found" /\ vm'.env = vm.env /\ vm'.out = vm.out

\* the AST interpreter failed with e, environments and output as they were
AstUndefined(e) ==
    interp'.status = e /\ interp'.stack = interp.stack /\ interp'.out = interp.out

C9_LoadOfUninitializedVarFails ==
    /\ [][(VMLoad /\ Declared(vm.env, CurrentIR.s)) =>
            /\ (Denoted(vm.env, CurrentIR.s).type = "var"
                  /\ Denoted(vm.env, CurrentIR.s).vk = "none") =>
                  vm'.status = "Exception: not initialized" /\ vm'.stack = vm.stack
            /\ vm'.status = "running" =>
                  /\ Denoted(vm.env, CurrentIR.s).vk = "int"
                  /\ vm'.stack = Append(vm.stack, Denoted(vm.env, CurrentIR.s).value)]_vars
    /\ [][\A e \in 1..Len(vm.env) : \A i \in 1..Len(vm.env[e]) :
            (/\ e <= Len(vm'.env) /\ i <= Len(vm'.env[e])
             /\ vm.env[e][i].type = "var" /\ vm.env[e][i].vk = "none"
             /\ vm'.env[e][i] # vm.env[e][i]) =>
                VMStore /\ vm'.env[e][i].vk = "int"]_vars
    /\ [][(VMVar /\ vm'.status = "running") =>
            vm'.env[Len(vm.env)][Len(vm'.env[Len(vm.env)])].vk = "none"]_vars

\* the run of "var x; procedure p; var x; ! x; begin x := 1; call p end." has failed
\* loading the x of p, which has no value, while the global x has the value 1
C9_Witness ==
    /\ ast = ShadowUninitializedProgram
    /\ vm.status = "Exception: not initialized"
    /\ vm.ic[vm.pc] = IRStr("load", "x")
    /\ Len(vm.env) = 2
    /\ Denoted(vm.env, "x").vk = "none"
    /\ Denoted(<<vm.env[1]>>, "x").value = 1

(***************************************************************************)
(* C10: declaring an identifier (VAR, CONST or PROC in the VM; a Const, a  *)
(* Var or a Procedure in the AST interpreter) that the top environment     *)
(* already holds fails with the duplicate-identifier error whatever the    *)
(* kinds of the old and the new entry, and every table, the top one with   *)
(* its entries and its length included, is as it was.                      *)
(***************************************************************************)
\* the identifier the AST interpreter is about to declare
DeclaredNext ==
    IF Head(interp.cont).k = "proc" THEN ProcedureAt(ast, Head(interp.cont).path).ident
    ELSE CurrentNode.ident

C10_DuplicateDeclarationFails ==
    [][/\ ((VMVar \/ VMConst \/ VMProc) /\ Holds(vm.env[Len(vm.env)], CurrentIR.s)) =>
             vm'.status = "ValueError: already exists" /\ vm'.env = vm.env
       /\ ((AstConst \/ AstVar \/ AstProcedure)
             /\ Holds(interp.stack[Len(interp.stack)], DeclaredNext)) =>
             /\ interp'.status = "ValueError: already exists"
             /\ interp'.stack = interp.stack]_vars

\* "const a = 1; procedure a; ! 1; ! 1." has failed in both executors declaring the
\* procedure a, the constant a still the only entry
C10_Witness ==
    /\ vm.status = "ValueError: already exists"
    /\ vm.ic[vm.pc] = IRStr("proc", "a")
    /\ vm.env = <<<<Symbol("a", "const", IntV(1))>>>>
    /\ interp.status = "ValueError: already exists"
    /\ Head(interp.cont).k = "proc"
    /\ interp.stack[Len(interp.stack)] = <<Symbol("a", "const", IntV(1))>>

\* var x; procedure p; var x; begin x := 2; ! x end; begin x := 1; call p; ! x end.
ShadowProgram == Programs[36]

\* const x = 1; var y; procedure p; const y = 2; procedure x; ! 3;
\* begin call x; ! y end; begin y := 5; call p; ! x; ! y end.
ShadowKindsProgram == Programs[40]

\* ident is held by a table of env below the top one and not by the top one
OnlyOuter(env, ident) ==
    /\ ~Holds(env[Len(env)], ident)
    /\ \E e \in 1..(Len(env) - 1) : Holds(env[e], ident)

\* the tables of env below the top one
Outer(env) == SubSeq(env, 1, Len(env) - 1)

\* the entry i of table e of env is shadowed: a table above e holds its name too
Shadowed(env, e, i) == \E f \in (e + 1)..Len(env) : Holds(env[f], env[e][i].ident)

\* env2 has every shadowed entry of env, as it was
KeepsShadowed(env, env2) ==
    \A e \in 1..Len(env) : \A i \in 1..Len(env[e]) :
        Shadowed(env, e, i) =>
            e <= Len(env2) /\ i <= Len(env2[e]) /\ env2[e][i] = env[e][i]

(***************************************************************************)
(* C11: declaring in a nested scope a name that only an outer table holds  *)
(* succeeds, in the VM and in the AST interpreter, and leaves the outer    *)
(* tables as they were.  While the activation is live the name resolves to *)
(* the inner entry: a load pushes its value, a store changes it alone, and *)
(* no step changes an entry that a table above it shadows.  Leaving the    *)
(* scope (RET, the end of interpret_block) pops exactly the top table, so  *)
(* the outer entry is visible again with the value it had: the two         *)
(* shadowing programs write 2, 1 and 3, 2, 1, 5.                           *)
(***************************************************************************)
C11_InnerDeclarationShadowsUntilScopeExit ==
    /\ [][((VMVar \/ VMConst \/ VMProc) /\ OnlyOuter(vm.env, CurrentIR.s)) =>
            /\ vm'.status = "running"
            /\ Holds(vm'.env[Len(vm'.env)], CurrentIR.s)
            /\ Outer(vm'.env) = Outer(vm.env)]_vars
    /\ [][((AstConst \/ AstVar \/ AstProcedure) /\ OnlyOuter(interp.stack, DeclaredNext)) =>
            /\ interp'.status = "running"
            /\ Holds(interp'.stack[Len(interp'.stack)], DeclaredNext)
            /\ Outer(interp'.stack) = Outer(interp.stack)]_vars
    /\ [][KeepsShadowed(vm.env, vm'.env) /\ KeepsShadowed(interp.stack, interp'.stack)]_vars
    /\ [][(VMLoad /\ Holds(vm.env[Len(vm.env)], CurrentIR.s) /\ vm'.status = "running") =>
            vm'.stack = Append(vm.stack, Denoted(<<vm.env[Len(vm.env)]>>, CurrentIR.s).value)]_vars
    /\ [][(VMStore /\ Holds(vm.env[Len(vm.env)], CurrentIR.s) /\ vm'.status = "running") =>
            /\ Denoted(<<vm'.env[Len(vm.env)]>>, CurrentIR.s).value = vm.stack[Len(vm.stack)]
            /\ Outer(vm'.env) = Outer(vm.env)]_vars
    /\ [][(VMRet /\ vm'.status = "running") => vm'.env = Outer(vm.env)]_vars
    /\ [][AstBlockExit => interp'.stack = Outer(interp.stack)]_vars
    /\ [](ast = ShadowProgram =>
            /\ vm.status \in {"unbuilt", "running", "halted"}
            /\ vm.status = "halted" => vm.out = <<2, 1>>
            /\ interp.status \in {"running", "done"}
            /\ interp.status = "done" => interp.out = <<IntV(2), IntV(1)>>)
    /\ [](ast = ShadowKindsProgram =>
            /\ vm.status \in {"unbuilt", "running", "halted"}
            /\ vm.status = "halted" => vm.out = <<3, 2, 1, 5>>
            /\ interp.status \in {"running", "done"}
            /\ interp.status = "done" => interp.out = <<IntV(3), IntV(2), IntV(1), IntV(5)>>)

\* p of the first shadowing program is live in both executors after its x := 2: the top
\* table holds x = 2 and the global table, below it, still holds x = 1
C11_Witness ==
    /\ ast = ShadowProgram
    /\ vm.status = "running"
    /\ Declared(vm.env, "x") /\ Denoted(vm.env, "x").value = 2
    /\ Declared(Outer(vm.env), "x") /\ Denoted(Outer(vm.env), "x").value = 1
    /\ interp.status = "running"
    /\ Declared(interp.stack, "x") /\ Denoted(interp.stack, "x").value = 2
    /\ Declared(Outer(interp.stack), "x") /\ Denoted(Outer(interp.stack), "x").value = 1

\* var x; procedure p; x := x + 1;
\* procedure q; var x; begin x := 10; call p; ! x end;
\* begin x := 1; call q; ! x end.
DynamicScopeProgram == Programs[38]

\* the number of the innermost table of env that holds ident
Innermost(env, ident) ==
    CHOOSE e \in 1..Len(env) :
        Holds(env[e], ident) /\ \A f \in (e + 1)..Len(env) : ~Holds(env[f], ident)

(***************************************************************************)
(* C12: the VM resolves a name in the environment stack as it is at run    *)
(* time, top to bottom, first match: CALL pushes an empty table and the    *)
(* return address and records no link to the scope of the declaration, a   *)
(* LOAD pushes the value of the entry in the innermost table that holds    *)
(* the name and a STORE assigns that entry and no other, whichever         *)
(* procedure's code the instruction belongs to.  In the program where q    *)
(* declares a local x and calls the global p, the x of p's code is q's:    *)
(* p loads 10 and stores 11 into q's table, the global x stays 1, and the  *)
(* run writes 11 and then 1.                                               *)
(***************************************************************************)
C12_NameResolutionIsDynamic ==
    /\ [][(VMCall /\ vm'.status = "running") =>
            /\ vm'.env = Append(vm.env, <<>>)
            /\ vm'.stack = Append(vm.stack, vm.pc + 1)]_vars
    /\ [][(VMLoad /\ vm'.status = "running") =>
            vm'.stack = Append(vm.stack, Denoted(vm.env, CurrentIR.s).value)]_vars
    /\ [][(VMStore /\ vm'.status = "running") =>
            /\ Len(vm'.env) = Len(vm.env)
            /\ Denoted(vm'.env, CurrentIR.s).value = vm.stack[Len(vm.stack)]
            /\ \A e \in 1..Len(vm.env) :
                 e # Innermost(vm.env, CurrentIR.s) => vm'.env[e] = vm.env[e]]_vars
    /\ [][(ast = DynamicScopeProgram /\ Len(vm.env) = 3) =>
            /\ VMLoad => vm'.stack = Append(vm.stack, 10)
            /\ VMStore => /\ Denoted(<<vm'.env[2]>>, "x").value = 11
                          /\ vm'.env[1] = vm.env[1]
                          /\ vm'.env[3] = <<>>]_vars
    /\ [](ast = DynamicScopeProgram =>
            /\ vm.status \in {"unbuilt", "running", "halted"}
            /\ vm.status = "halted" =>
                  /\ vm.out = <<11, 1>>
                  /\ Denoted(vm.env, "x").value = 1)

\* p, called by q, has stored: its own table is empty, the x of q is 11 and the
\* global x is still 1
C12_Witness ==
    /\ ast = DynamicScopeProgram
    /\ vm.status = "running"
    /\ Len(vm.env) = 3
    /\ vm.env[3] = <<>>
    /\ Holds(vm.env[2], "x") /\ Denoted(<<vm.env[2]>>, "x").value = 11
    /\ Holds(vm.env[1], "x") /\ Denoted(<<vm.env[1]>>, "x").value = 1
    /\ Holds(vm.env[1], "p") /\ vm.pc = Denoted(<<vm.env[1]>>, "p").value + 4

(***************************************************************************)
(* C13: frames records, for every CALL that has not returned yet, its      *)
(* index and the depths of the value stack and of the environment stack    *)
(* before it.  Every RET the VM executes finds on top of the value stack   *)
(* the return address pushed by the CALL that opened the activation (the   *)
(* index after that CALL), succeeds and continues there; after it the      *)
(* value stack and the environment stack are as deep as they were before   *)
(* that CALL, and the value stack holds what it held below the address.    *)
(***************************************************************************)
C13_RetFindsTheReturnAddressOfItsCall ==
    /\ [](vm.status = "running" => Len(frames) = Len(vm.env) - 1)
    /\ [][VMRet =>
            /\ frames # <<>>
            /\ vm.stack # <<>>
            /\ vm.stack[Len(vm.stack)] = frames[Len(frames)].at + 1
            /\ vm.ic[frames[Len(frames)].at + 1].op = "call"
            /\ vm'.status = "running"
            /\ vm'.pc = frames[Len(frames)].at + 1
            /\ Len(vm'.stack) = frames[Len(frames)].depth
            /\ vm'.stack = Below(1)
            /\ Len(vm'.env) = frames[Len(frames)].envs]_vars

\* an activation of fact has returned into the activation that called it: the
\* instruction before pc is the CALL, and the return addresses of the callers are
\* all the value stack holds
C13_Witness ==
    /\ ast = FactProgram
    /\ vm.status = "running"
    /\ Len(frames) >= 2
    /\ vm.pc = frames[Len(frames)].at + 1
    /\ vm.ic[vm.pc].op = "call"
    /\ vm.stack = [k \in 1..Len(frames) |-> frames[k].at + 1]

\* var x; begin x := 7; if odd x then ! x end.
IfLastProgram == Programs[6]

\* var i; procedure p; while i < 2 do i := i + 1; begin i := 0; call p; ! i end.
WhileLastInProcedureProgram == Programs[41]

\* generate() has returned the finished IR of ast
Finished == icg.calls = 1 /\ icg.err = ""

\* the finished IR has an instruction op whose operand is the index of an instruction to
JumpsTo(op, to) ==
    \E i \in 1..Len(icg.buf) :
        /\ icg.buf[i].op = op /\ icg.buf[i].k = "int"
        /\ icg.buf[i].n >= 0 /\ icg.buf[i].n < Len(icg.buf)
        /\ icg.buf[icg.buf[i].n + 1].op = to

(***************************************************************************)
(* C14: in the IR generate() returns, the operand of every JMP and of      *)
(* every JPF is an integer index of an instruction of the list: no JPF is  *)
(* left with the placeholder it was emitted with.  A JPF leads forward and *)
(* a JMP back.  This includes an If or a While that is the last statement  *)
(* of the program, whose JPF leads to the HALT, and one that is the last   *)
(* statement of a procedure body, whose JPF leads to the RET.  At run time *)
(* every JMP and JPF leaves pc on an instruction of the list.              *)
(***************************************************************************)
C14_JumpOperandsAreIndicesOfTheIR ==
    /\ [](Finished =>
            \A i \in 1..Len(icg.buf) :
                icg.buf[i].op \in {"jmp", "jpf"} =>
                    /\ icg.buf[i].k = "int"
                    /\ icg.buf[i].n >= 0
                    /\ icg.buf[i].n < Len(icg.buf)
                    /\ icg.buf[i].op = "jpf" => icg.buf[i].n > i - 1
                    /\ icg.buf[i].op = "jmp" => icg.buf[i].n < i - 1)
    /\ []((Finished /\ ast = IfLastProgram) => JumpsTo("jpf", "halt"))
    /\ []((Finished /\ ast = SumSquaresProgram) => JumpsTo("jpf", "halt"))
    /\ []((Finished /\ ast = FactProgram) => JumpsTo("jpf", "ret"))
    /\ []((Finished /\ ast = WhileLastInProcedureProgram) => JumpsTo("jpf", "ret"))
    /\ [][(VMJmp \/ VMJpf) =>
            /\ vm'.status = "running"
            /\ vm'.pc >= 0 /\ vm'.pc < Len(vm.ic)]_vars

\* the while loop that ends the body of p has been left by its JPF, which led to the RET
C14_Witness ==
    /\ ast = WhileLastInProcedureProgram
    /\ Finished
    /\ JumpsTo("jpf", "ret")
    /\ vm.status = "running"
    /\ CurrentOp(vm) = "ret"
    /\ vm.ic[vm.pc].op = "jmp"

\* procedure outer; procedure inner; ! 1; begin call inner; ! 2 end;
\* begin call outer; ! 3 end.
NestedProcedureProgram == Programs[39]

RECURSIVE ProceduresFrom(_, _)
\* the procedures procs[i], procs[i + 1], ... each followed by the procedures its own
\* block declares: the order in which generate_proc reaches them
ProceduresFrom(procs, i) ==
    IF i > Len(procs) THEN <<>>
    ELSE <<procs[i]>> \o ProceduresFrom(procs[i].block.procs, 1) \o ProceduresFrom(procs, i + 1)

\* the number of instructions op among ic[from], ..., ic[to] (counted from 1)
CountOf(ic, op, from, to) == Cardinality({i \in from..to : ic[i].op = op})

\* ic[r] is the RET that closes the PROC ic[p]: the first at which a scan that starts
\* after the PROC has met one RET more than PROCs
Closes(ic, p, r) ==
    /\ p < r /\ r <= Len(ic)
    /\ ic[r].op = "ret"
    /\ CountOf(ic, "ret", p + 1, r) = CountOf(ic, "proc", p + 1, r) + 1
    /\ \A q \in (p + 1)..(r - 1) :
           CountOf(ic, "ret", p + 1, q) <= CountOf(ic, "proc", p + 1, q)

\* the k-th PROC of ic, counted from 1
NthProc(ic, k) ==
    CHOOSE p \in 1..Len(ic) : ic[p].op = "proc" /\ CountOf(ic, "proc", 1, p) = k

(***************************************************************************)
(* C15: in the IR generate() returns PROC and RET are properly nested.     *)
(* No prefix of the list has more RETs than PROCs and the whole list has   *)
(* as many of each, so no RET is unmatched.  The k-th PROC is the one of   *)
(* the k-th procedure generate_proc reaches; the depth-counted scan from   *)
(* the instruction after it (_search_ret) comes to 0 at one RET, and what  *)
(* lies between the PROC and that RET is the code of that procedure's      *)
(* block, so the RET is the one emitted for the same procedure.  At run    *)
(* time every PROC that declares a new name leaves pc just after the RET   *)
(* that closes it.                                                         *)
(***************************************************************************)
C15_ProcAndRetAreProperlyNested ==
    /\ [](Finished =>
            /\ \A n \in 1..Len(icg.buf) :
                   CountOf(icg.buf, "ret", 1, n) <= CountOf(icg.buf, "proc", 1, n)
            /\ CountOf(icg.buf, "ret", 1, Len(icg.buf)) =
                   CountOf(icg.buf, "proc", 1, Len(icg.buf))
            /\ CountOf(icg.buf, "proc", 1, Len(icg.buf)) =
                   Len(ProceduresFrom(ast.block.procs, 1))
            /\ \A k \in 1..Len(ProceduresFrom(ast.block.procs, 1)) :
                   LET p == NthProc(icg.buf, k)
                       r == search_ret(icg.buf, p, 1)
                       procedure == ProceduresFrom(ast.block.procs, 1)[k]
                   IN /\ icg.buf[p] = IRStr("proc", procedure.ident)
                      /\ r > 0
                      /\ Closes(icg.buf, p, r)
                      /\ \A q \in 1..Len(icg.buf) : Closes(icg.buf, p, q) => q = r
                      /\ SubSeq(icg.buf, 1, r - 1) =
                             generate_block(procedure.block,
                                 [icg EXCEPT !.buf = SubSeq(icg.buf, 1, p)]).buf)
    /\ [][(VMProc /\ ~Holds(vm.env[Len(vm.env)], CurrentIR.s)) =>
            /\ vm'.status = "running"
            /\ Closes(vm.ic, vm.pc + 1, vm'.pc)]_vars

\* PROC outer has been executed: pc is just after the RET of outer, the last of the
\* two RETs that follow it, and the body of outer, inner included, was skipped
C15_Witness ==
    /\ ast = NestedProcedureProgram
    /\ Finished
    /\ vm.status = "running"
    /\ vm.pc = 9
    /\ Closes(vm.ic, 1, 9) /\ Closes(vm.ic, 2, 5)
    /\ vm.env = <<<<Symbol("outer", "proc", IntV(1))>>>>
    /\ vm.out = <<>>

RECURSIVE WellFormed(_)
\* an Expression with one term more than operators, whose Terms have one factor more
\* than operators, the parenthesized expressions among the factors included
WellFormed(expr) ==
    /\ Len(expr.terms) >= 1
    /\ Len(expr.terms) = Len(expr.ops) + 1
    /\ \A i \in 1..Len(expr.ops) : expr.ops[i] \in {"+", "-"}
    /\ \A t \in 1..Len(expr.terms) :
          /\ Len(expr.terms[t].factors) >= 1
          /\ Len(expr.terms[t].factors) = Len(expr.terms[t].ops) + 1
          /\ \A i \in 1..Len(expr.terms[t].ops) : expr.terms[t].ops[i] \in {"*", "/"}
          /\ \A f \in 1..Len(expr.terms[t].factors) :
                expr.terms[t].factors[f].k = "expr" =>
                    WellFormed(expr.terms[t].factors[f].expr)

\* the calls of parse_expression made so far that returned an Expression
Parsed == {k \in DOMAIN calls : calls[k].op = "parse_expression" /\ calls[k].raised = ""}

(***************************************************************************)
(* C16: every Expression parse_expression returns has at least one term    *)
(* and one term more than operators, and every Term in it, at any depth of *)
(* parentheses, has one factor more than operators; so the asserts of      *)
(* generate_expression and generate_term hold on it: generating its code   *)
(* raises nothing.                                                         *)
(***************************************************************************)
C16_ParsedExpressionsSatisfyTheAsserts ==
    \A k \in Parsed :
        /\ WellFormed(calls[k].value)
        /\ generate_expression(calls[k].value, [buf |-> <<>>, err |-> "", calls |-> 0]).err = ""

\* "a * (b + 1) / 2 - c" has been parsed: two terms, the first of three factors, the
\* second of them a parenthesized expression of two terms
C16_Witness ==
    \E k \in Parsed :
        /\ lx.s = <<"a", " ", "*", " ", "(", "b", " ", "+", " ", "1", ")", " ", "/", " ",
                    "2", " ", "-", " ", "c">>
        /\ Len(calls[k].value.terms) = 2
        /\ calls[k].value.ops = <<"-">>
        /\ calls[k].value.terms[1].ops = <<"*", "/">>
        /\ Len(calls[k].value.terms[1].factors) = 3
        /\ calls[k].value.terms[1].factors[2].k = "expr"
        /\ Len(calls[k].value.terms[1].factors[2].expr.terms) = 2

\* the calls of generate() made so far that returned a list
Generated == {k \in DOMAIN calls : calls[k].op = "generate" /\ calls[k].raised = ""}

(***************************************************************************)
(* C17: the list a second generation on the same AST returns, by a new ICG *)
(* instance or by a second call of generate() on the same instance, is     *)
(* equal to the list the first returned: same length, same opcode and      *)
(* operand at every index.                                                 *)
(***************************************************************************)
C17_SecondGenerationYieldsTheSameIR ==
    \A j \in Generated : \A k \in Generated : calls[j].value = calls[k].value

\* the part of C17 that holds: a second generation by a new instance, the only
\* generate() of that instance, returns what the first returned
C17_NewInstanceYieldsTheSameIR ==
    (icg.calls = 1 /\ Len(calls) = 2) =>
        (calls[1].op = "generate" /\ calls[2].op = "generate" /\ calls[1] = calls[2])

\* generate() has returned twice on one instance: the second list is twice as long
\* as the first, which is its first half
C17_SameInstanceAppends ==
    (icg.calls = 2 /\ Generated = {1, 2}) =>
        /\ Len(calls[2].value) = 2 * Len(calls[1].value)
        /\ SubSeq(calls[2].value, 1, Len(calls[1].value)) = calls[1].value

RECURSIVE Scan(_)
\* the tokens from the current one of l to the first EndOfInput, or to the character
\* the lexer rejects
Scan(l) ==
    IF l.err # "" THEN <<>>
    ELSE IF l.current.type = "EOF" THEN <<l.current>>
    ELSE <<l.current>> \o Scan(_next(l))

\* the calls of next() made so far, in order
Nexts == SelectSeq(calls, LAMBDA c : c.op = "next")

\* only the lexer's own methods have been called
OnlyLexerCalls == \A k \in DOMAIN calls : calls[k].op \in {"peek", "next"}

\* EndOfInput has been returned by a call before the k-th
AfterEndOfInput(k) ==
    \E j \in 1..(k - 1) : calls[j].raised = "" /\ calls[j].value = Token("EOF", "")

(***************************************************************************)
(* C18: peek() returns the current token and changes nothing of the lexer: *)
(* the call after a peek(), be it a peek() or a next(), returns the token  *)
(* the peek() returned.  The calls of next() return the tokens of the      *)
(* source in source order, one per call.  Once a call has returned         *)
(* EndOfInput, every later peek() and next() returns EndOfInput and raises *)
(* nothing.                                                                *)
(***************************************************************************)
C18_PeekDoesNotConsumeAndEndOfInputStays ==
    /\ [][LexerPeek => lx' = lx /\ calls'[Len(calls')].value = lx.current]_vars
    /\ [](\A k \in DOMAIN calls :
            /\ (calls[k].op = "peek" /\ k < Len(calls) /\ calls[k + 1].op \in {"peek", "next"}) =>
                  calls[k + 1].raised = "" /\ calls[k + 1].value = calls[k].value
            /\ (calls[k].op \in {"peek", "next"} /\ AfterEndOfInput(k)) =>
                  calls[k].raised = "" /\ calls[k].value = Token("EOF", ""))
    /\ [](OnlyLexerCalls =>
            \A n \in 1..Len(Nexts) :
                /\ Nexts[n].raised = ""
                /\ Nexts[n].value = IF n <= Len(Scan(Lexer(lx.s))) THEN Scan(Lexer(lx.s))[n]
                                    ELSE Token("EOF", ""))

\* what of C18 holds: the same, of the calls of next() that return
C18_HoldsOfTheCallsThatReturn ==
    /\ [][LexerPeek => lx' = lx /\ calls'[Len(calls')].value = lx.current]_vars
    /\ [](\A k \in DOMAIN calls :
            /\ (calls[k].op = "peek" /\ k < Len(calls) /\ calls[k + 1].op \in {"peek", "next"}
                   /\ calls[k + 1].raised = "") =>
                  calls[k + 1].value = calls[k].value
            /\ (calls[k].op \in {"peek", "next"} /\ AfterEndOfInput(k)) =>
                  calls[k].raised = "" /\ calls[k].value = Token("EOF", ""))
    /\ [](OnlyLexerCalls =>
            \A n \in 1..Len(Nexts) :
                Nexts[n].raised = "" =>
                    Nexts[n].value = IF n <= Len(Scan(Lexer(lx.s)))
                                     THEN Scan(Lexer(lx.s))[n]
                                     ELSE Token("EOF", ""))

\* the index of the first character of s at or after index i that is not whitespace,
\* Len(s) when there is none
FirstNonSpace(s, i) ==
    CHOOSE j \in i..Len(s) :
        /\ j = Len(s) \/ s[j + 1] \notin {" ", "\t", "\n"}
        /\ \A h \in (i + 1)..j : s[h] \in {" ", "\t", "\n"}

\* scanning from the lexer l gave the lexer l2, as the operator rules say with single
\* as the single-character operators: a two-character operator is one token, a single
\* one is one token, any other character that begins no number and no identifier is
\* an invalid-character error
ScansOperator(l, l2, single) ==
    LET j == FirstNonSpace(l.s, l.i)
        c == l.s[j + 1]
    IN j < Len(l.s) =>
        IF j + 2 <= Len(l.s) /\ <<c, l.s[j + 2]>> \in {<<":", "=">>, <<"<", "=">>, <<">", "=">>}
        THEN l2.err = "" /\ l2.i = j + 2 /\ l2.current = Token("Op", c \o l.s[j + 2])
        ELSE IF c \in single
        THEN l2.err = "" /\ l2.i = j + 1 /\ l2.current = Token("Op", c)
        ELSE IF c \in VALID_IDENTIFIER_CONTINUES
        THEN l2.err = ""
        ELSE l2.err = "ValueError: Invalid character"

\* the lexer as __init__ finds it: nothing scanned
Unscanned(s) == [s |-> s, i |-> 0, current |-> Token("EOF", ""), err |-> ""]

(***************************************************************************)
(* C19: wherever the lexer scans a token, in __init__ and in next(), each  *)
(* of the characters + - * / = # , ; . ( ) < > ? ! becomes one Operator    *)
(* token that carries the character, each of := <= >= becomes one Operator *)
(* token of two characters, and any other character that begins no number  *)
(* and no identifier, a : without = behind it included, is an              *)
(* invalid-character error.                                                *)
(***************************************************************************)
C19_OperatorsOfTheAlphabetAreLexed ==
    /\ []((calls = <<>> /\ lx.err # "unbuilt") =>
            ScansOperator(Unscanned(lx.s), lx,
                {"+", "-", "*", "/", "=", "#", ",", ";", ".", "(", ")", "<", ">", "?", "!"}))
    /\ [][LexerNext =>
            ScansOperator(lx, lx',
                {"+", "-", "*", "/", "=", "#", ",", ";", ".", "(", ")", "<", ">", "?", "!"})]_vars

\* what of C19 holds: the same without ? and !, which are invalid characters
C19_HoldsWithoutQuestionAndBang ==
    /\ []((calls = <<>> /\ lx.err # "unbuilt") =>
            ScansOperator(Unscanned(lx.s), lx,
                {"+", "-", "*", "/", "=", "#", ",", ";", ".", "(", ")", "<", ">"}))
    /\ [][LexerNext =>
            ScansOperator(lx, lx',
                {"+", "-", "*", "/", "=", "#", ",", ";", ".", "(", ")", "<", ">"})]_vars

\* the characters an identifier is made of
IdentifierChars ==
    VALID_IDENTIFIER_STARTS \cup {"0", "1", "2", "3", "4", "5", "6", "7", "8", "9"}

\* the eleven reserved words
ReservedWords ==
    {"begin", "call", "const", "do", "end", "if", "odd", "procedure", "then", "var",
     "while"}

RECURSIVE Text(_, _, _)
\* the characters of s at the indices i .. j - 1, as one string
Text(s, i, j) == IF i >= j THEN "" ELSE s[i + 1] \o Text(s, i + 1, j)

\* the index at which the maximal run of identifier characters that starts at index j
\* of s ends
RunEnd(s, j) ==
    CHOOSE e \in j..Len(s) :
        /\ \A h \in (j + 1)..e : s[h] \in IdentifierChars
        /\ e = Len(s) \/ s[e + 1] \notin IdentifierChars

\* scanning from the lexer l gave the lexer l2, as the identifier rule says: when the
\* first character that is not whitespace is a letter or _, the token is the maximal
\* run of identifier characters from there, a Keyword when the run is a reserved word
\* and a Name otherwise
ScansIdentifier(l, l2) ==
    LET j == FirstNonSpace(l.s, l.i)
    IN (j < Len(l.s) /\ l.s[j + 1] \in VALID_IDENTIFIER_STARTS) =>
          /\ l2.err = ""
          /\ l2.i = RunEnd(l.s, j)
          /\ l2.current.value = Text(l.s, j, RunEnd(l.s, j))
          /\ l2.current.type = "Keyword" <=> l2.current.value \in ReservedWords
          /\ l2.current.type = "Name" <=> l2.current.value \notin ReservedWords

\* the tokens the calls of next() made so far have returned
Returns == [n \in 1..Len(Nexts) |-> Nexts[n].value]

\* seq begins with the tokens the calls of next() have returned, all of them
ReturnsBegin(seq) ==
    /\ \A n \in 1..Len(Nexts) : Nexts[n].raised = ""
    /\ Len(Nexts) <= Len(seq) => Returns = SubSeq(seq, 1, Len(Nexts))

(***************************************************************************)
(* C20: wherever the lexer scans a token that begins with a letter or _,   *)
(* in __init__ and in next(), the token is the maximal run of letters,     *)
(* digits and _ from there, a Keyword exactly when that lexeme is one of   *)
(* the eleven reserved words and a Name otherwise.  "if" gives             *)
(* Keyword('if') and "if_0" gives Name('if_0'); "iffy", "If" and "while1"  *)
(* are Names; the tokens of "var i, s;" and of "  var\n x " come out in    *)
(* source order, the whitespace skipped.                                   *)
(***************************************************************************)
C20_IdentifiersAreMaximalRunsAndKeywordsExact ==
    /\ []((calls = <<>> /\ lx.err # "unbuilt") => ScansIdentifier(Unscanned(lx.s), lx))
    /\ [][LexerNext => ScansIdentifier(lx, lx')]_vars
    /\ [](OnlyLexerCalls =>
            /\ lx.s = <<"i", "f">> => ReturnsBegin(<<Token("Keyword", "if")>>)
            /\ lx.s = <<"i", "f", "_", "0">> => ReturnsBegin(<<Token("Name", "if_0")>>)
            /\ lx.s = <<"i", "f", " ", "i", "f", "_", "0">> =>
                  ReturnsBegin(<<Token("Keyword", "if"), Token("Name", "if_0")>>)
            /\ lx.s = <<"i", "f", "f", "y">> => ReturnsBegin(<<Token("Name", "iffy")>>)
            /\ lx.s = <<"I", "f">> => ReturnsBegin(<<Token("Name", "If")>>)
            /\ lx.s = <<"w", "h", "i", "l", "e", "1", " ", "x", "_", "1", " ", "_", "y">> =>
                  ReturnsBegin(<<Token("Name", "while1"), Token("Name", "x_1"),
                                 Token("Name", "_y")>>)
            /\ lx.s = <<"v", "a", "r", " ", "i", ",", " ", "s", ";">> =>
                  ReturnsBegin(<<Token("Keyword", "var"), Token("Name", "i"),
                                 Token("Op", ","), Token("Name", "s"), Token("Op", ";")>>)
            /\ lx.s = <<" ", " ", "v", "a", "r", "\n", " ", "x", " ">> =>
                  ReturnsBegin(<<Token("Keyword", "var"), Token("Name", "x")>>))

\* next() has returned Keyword('if') and then Name('if_0') on the source "if if_0"
C20_Witness ==
    /\ lx.s = <<"i", "f", " ", "i", "f", "_", "0">>
    /\ Len(calls) = 2
    /\ calls[1] = [op |-> "next", raised |-> "", value |-> Token("Keyword", "if")]
    /\ calls[2] = [op |-> "next", raised |-> "", value |-> Token("Name", "if_0")]
    /\ lx.current = Token("EOF", "")

(***************************************************************************)
(* C25: a binary instruction (ADD, SUB, MUL, EQ, NE, LT, LE, GT, GE)        *)
(* executed on a value stack that holds l below r pops r first and l       *)
(* second and pushes l + r, l - r, l * r, or 1 or 0 as l = r, l # r,       *)
(* l < r, l <= r, l > r, l >= r holds or not: the left operand is the      *)
(* value pushed earlier.  The rest of the stack is as it was, so the stack *)
(* is one value shorter, and the run goes on.                              *)
(***************************************************************************)
BinaryOps == {"add", "sub", "mul", "eq", "ne", "lt", "le", "gt", "ge"}

\* what the instruction op is to push for the left operand l and the right operand r
ResultOf(op, l, r) ==
    CASE op = "add" -> l + r
      [] op = "sub" -> l - r
      [] op = "mul" -> l * r
      [] op = "eq" -> IF l = r THEN 1 ELSE 0
      [] op = "ne" -> IF l # r THEN 1 ELSE 0
      [] op = "lt" -> IF l < r THEN 1 ELSE 0
      [] op = "le" -> IF l <= r THEN 1 ELSE 0
      [] op = "gt" -> IF l > r THEN 1 ELSE 0
      [] op = "ge" -> IF l >= r THEN 1 ELSE 0

C25_BinaryInstructionsTakeTheEarlierValueAsLeftOperand ==
    [][((VMArith \/ VMCompare) /\ CurrentIR.op \in BinaryOps /\ Len(vm.stack) >= 2) =>
          /\ vm'.status = "running"
          /\ vm'.stack = Append(Below(2), ResultOf(CurrentIR.op,
                                                   vm.stack[Len(vm.stack) - 1],
                                                   vm.stack[Len(vm.stack)]))
          /\ Len(vm'.stack) = Len(vm.stack) - 1
          /\ vm'.pc = vm.pc + 1]_vars

\* LT has just pushed 1 above another value: its left operand was the smaller one,
\* so the two operands differed
C25_Witness ==
    /\ vm.status = "running"
    /\ vm.pc > 0
    /\ vm.ic[vm.pc].op = "lt"
    /\ Len(vm.stack) >= 1
    /\ vm.stack[Len(vm.stack)] = 1

(***************************************************************************)
(* C26: JPF idx executed on a non-empty value stack pops exactly one       *)
(* value; when that value is zero the run continues at index idx, and      *)
(* otherwise at the instruction after the JPF.  With the lowering of       *)
(* `if C then S` (code of C, JPF, code of S, the JPF's operand the index   *)
(* just after the code of S) the branch runs once when C holds and not at  *)
(* all when it does not: `? a; if a op 1 then ! 1; ! 0` writes 1 and 0     *)
(* when a op 1 holds of the integer read and only 0 when it does not, and  *)
(* `x := 7; if odd x then ! x` writes 7 once.                              *)
(***************************************************************************)
\* the comparison the grammar operator op denotes (the generator lowers all but "=")
Compares(op, l, r) ==
    CASE op = "#" -> l # r
      [] op = "<" -> l < r
      [] op = "<=" -> l <= r
      [] op = ">" -> l > r
      [] op = ">=" -> l >= r

C26_JpfJumpsOnZeroAndIfRunsItsBranchOnce ==
    /\ [][(VMJpf /\ Len(vm.stack) >= 1) =>
            /\ vm'.status = "running"
            /\ vm'.stack = Below(1)
            /\ CurrentIR.k = "int"
            /\ vm'.pc = IF vm.stack[Len(vm.stack)] = 0 THEN CurrentIR.n ELSE vm.pc + 1]_vars
    /\ [](\A op \in {"#", "<", "<=", ">", ">="} :
            (ast = ComparisonProgram(op) /\ Finished) =>
               /\ \A j \in 0..(Len(icg.buf) - 1) :
                     icg.buf[j + 1].op = "jpf" =>
                        /\ icg.buf[j + 1].n = j + 3
                        /\ icg.buf[j + 2] = IRInt("lit", 1)
                        /\ icg.buf[j + 3] = IR("output")
               /\ vm.status = "halted" =>
                     vm.out = IF Compares(op, input[1], 1) THEN <<1, 0>> ELSE <<0>>)
    /\ []((ast = IfLastProgram /\ Finished /\ vm.status = "halted") => vm.out = <<7>>)

\* a JPF has found zero on the stack and jumped over the branch of its If: the run
\* of `if a < 1 then ! 1` on an integer that is not below 1 stands after the branch
C26_Witness ==
    /\ ast = ComparisonProgram("<")
    /\ vm.status = "running"
    /\ input # <<>>
    /\ input[1] >= 1
    /\ vm.pc > 0
    /\ vm.ic[vm.pc + 1] = IRInt("lit", 0)
    /\ vm.out = <<>>

(***************************************************************************)
(* C27: a CALL p at index k whose name denotes a Proc pushes k + 1 on the  *)
(* value stack, pushes one empty environment, and continues at the index   *)
(* just after a PROC p.  The RET that ends the activation finds that       *)
(* environment on top (the environments above it are gone), pops it and    *)
(* nothing else, and continues at k + 1 with the environment stack as deep *)
(* as before the CALL and, below the new table, what it was.               *)
(***************************************************************************)
C27_CallOpensAndRetClosesOneActivation ==
    /\ [][(VMCall /\ Declared(vm.env, CurrentIR.s)
                  /\ Denoted(vm.env, CurrentIR.s).type = "proc") =>
            /\ vm'.status = "running"
            /\ vm'.stack = Append(vm.stack, vm.pc + 1)
            /\ vm'.env = Append(vm.env, <<>>)
            /\ vm'.pc >= 1
            /\ vm'.pc <= Len(vm.ic)
            /\ vm.ic[vm'.pc] = IRStr("proc", CurrentIR.s)
            /\ frames' = Append(frames, [at |-> vm.pc, depth |-> Len(vm.stack),
                                         envs |-> Len(vm.env)])]_vars
    /\ [][VMRet =>
            /\ frames # <<>>
            /\ Len(vm.env) = frames[Len(frames)].envs + 1
            /\ vm'.env = SubSeq(vm.env, 1, frames[Len(frames)].envs)
            /\ vm'.pc = frames[Len(frames)].at + 1
            /\ vm'.status = "running"
            /\ frames' = SubSeq(frames, 1, Len(frames) - 1)]_vars

\* `call outer` has returned: outer and the inner it called have written 1 and 2,
\* the run stands after the CALL of the main statement, in the global environment
C27_Witness ==
    /\ ast = NestedProcedureProgram
    /\ vm.status = "running"
    /\ vm.out = <<1, 2>>
    /\ frames = <<>>
    /\ Len(vm.env) = 1
    /\ vm.pc > 0
    /\ vm.ic[vm.pc] = IRStr("call", "outer")

(***************************************************************************)
(* C28: a PROC name at index k whose name the top environment does not     *)
(* hold yet registers name there as a Proc whose value is k + 1 and        *)
(* continues just after the RET that closes the procedure: none of the     *)
(* instructions between is executed, also when the body declares           *)
(* procedures of its own (their PROCs and RETs are counted).  The value    *)
(* stack, the output, the other environments and the other entries of the  *)
(* top environment are as they were.                                       *)
(***************************************************************************)
\* the RET at index r closes the PROC at index k: from k + 1 to r, only at r
\* have as many RETs as PROCs plus one been met
ClosingRet(ic, k, r) ==
    /\ r > k
    /\ r < Len(ic)
    /\ ic[r + 1].op = "ret"
    /\ \A j \in (k + 1)..r :
          LET procs == Cardinality({i \in (k + 1)..j : ic[i + 1].op = "proc"})
              rets == Cardinality({i \in (k + 1)..j : ic[i + 1].op = "ret"})
          IN (rets = procs + 1) <=> (j = r)

C28_ProcRegistersAndSkipsItsBody ==
    [][(VMProc /\ ~Holds(vm.env[Len(vm.env)], CurrentIR.s)) =>
          /\ vm'.status = "running"
          /\ ClosingRet(vm.ic, vm.pc, vm'.pc - 1)
          /\ vm'.env[Len(vm.env)] =
                Append(vm.env[Len(vm.env)],
                       Symbol(CurrentIR.s, "proc", IntV(vm.pc + 1)))
          /\ Len(vm'.env) = Len(vm.env)
          /\ \A e \in 1..(Len(vm.env) - 1) : vm'.env[e] = vm.env[e]
          /\ vm'.stack = vm.stack
          /\ vm'.out = vm.out
          /\ vm'.reads = vm.reads
          /\ frames' = frames]_vars

\* PROC outer has been executed at the global level: outer is registered, the run
\* stands after the RET of outer, beyond the PROC and the RET of inner, and nothing
\* has been written
C28_Witness ==
    /\ ast = NestedProcedureProgram
    /\ vm.status = "running"
    /\ Len(vm.env) = 1
    /\ Holds(vm.env[1], "outer")
    /\ ~Holds(vm.env[1], "inner")
    /\ vm.out = <<>>
    /\ vm.pc > 0
    /\ vm.ic[vm.pc].op = "ret"
    /\ Cardinality({i \in 1..vm.pc : vm.ic[i].op = "ret"}) = 2

(***************************************************************************)
(* C30: while the VM runs generated code (until it halts or fails), pc is  *)
(* an index of the IR, 0 <= pc < len(IR), and the environment stack holds  *)
(* one table more than there are activations opened by a CALL and not yet  *)
(* closed by a RET.  The global table is never popped, in a failing step   *)
(* either, and no RET is executed outside an activation.                   *)
(***************************************************************************)
C30_PcIsAnIndexAndEnvironmentsAreGlobalPlusActivations ==
    /\ [](vm.status = "running" =>
            /\ vm.ic = icg.buf
            /\ vm.pc >= 0
            /\ vm.pc < Len(vm.ic)
            /\ Len(vm.env) = 1 + Len(frames))
    /\ [](vm.status # "unbuilt" => Len(vm.env) >= 1)
    /\ [][VMRet => frames # <<>> /\ Len(vm.env) >= 2 /\ Len(vm'.env) >= 1]_vars
    /\ [][(VMCall /\ vm'.status = "running") =>
             Len(frames') = Len(frames) + 1 /\ Len(vm'.env) = Len(vm.env) + 1]_vars
    /\ [][(vm.status = "running" /\ ~VMCall /\ ~VMRet) => frames' = frames]_vars

\* the run of outer/inner stands in the activation of inner opened from the
\* activation of outer: three tables, two open activations
C30_Witness ==
    /\ ast = NestedProcedureProgram
    /\ vm.status = "running"
    /\ Len(frames) = 2
    /\ Len(vm.env) = 3
    /\ vm.ic[frames[1].at + 1] = IRStr("call", "outer")
    /\ vm.ic[frames[2].at + 1] = IRStr("call", "inner")

(***************************************************************************)
(* C24: whether or not an executor was built with debug tracing, standard  *)
(* output holds no line of the trace: the lines on it are the values that  *)
(* OUTPUT (in the VM) and Write (in the AST interpreter) have printed, in  *)
(* order, and nothing else.                                                *)
(***************************************************************************)
\* the lines standard output holds when the values out are all that was printed
OutputOnly(out) == [i \in 1..Len(out) |-> [trace |-> FALSE, v |-> out[i]]]

C24_StandardOutputHoldsTheOutputOnly ==
    /\ vm.status # "unbuilt" => vm.stdout = OutputOnly(PipelineOut)
    /\ interp.stdout = OutputOnly(interp.out)

\* what does hold: without debug tracing standard output holds the output only, and
\* with it the lines that are not trace lines are the output, in order; but every
\* instruction executed and every method entered puts a trace line on that channel
C24_OutputOnlyWithoutDebug ==
    /\ [](/\ (vm.status # "unbuilt" /\ ~vm.debug) => vm.stdout = OutputOnly(PipelineOut)
          /\ ~interp.debug => interp.stdout = OutputOnly(interp.out)
          /\ vm.status # "unbuilt" =>
                SelectSeq(vm.stdout, LAMBDA l : ~l.trace) = OutputOnly(PipelineOut)
          /\ SelectSeq(interp.stdout, LAMBDA l : ~l.trace) = OutputOnly(interp.out))
    /\ [][(VMNext /\ vm.debug) =>
             /\ Len(vm'.stdout) > Len(vm.stdout)
             /\ vm'.stdout[Len(vm.stdout) + 1].trace]_vars
    /\ [][(AstNext /\ interp.debug /\ ~AstBlockExit) =>
             /\ Len(interp'.stdout) > Len(interp.stdout)
             /\ interp'.stdout[Len(interp.stdout) + 1].trace]_vars

\* the factorial program run with debug tracing has halted: standard output holds
\* trace lines and, between the trace lines of OUTPUT and of HALT, the 120 written
C24_TraceOnStandardOutput ==
    /\ ast = FactProgram
    /\ vm.debug
    /\ vm.status = "halted"
    /\ vm.out = <<120>>
    /\ Len(vm.stdout) > 3
    /\ vm.stdout[Len(vm.stdout) - 2].trace
    /\ vm.stdout[Len(vm.stdout) - 1] = [trace |-> FALSE, v |-> IntV(120)]
    /\ vm.stdout[Len(vm.stdout)].trace

(***************************************************************************)
(* C21.  The end of the program text.                                      *)
(***************************************************************************)
\* parse_program was called and returned a Program
ParsedProgram == calls # <<>> /\ calls[1].op = "parse_program" /\ calls[1].raised = ""

\* C21: parsing a source text in which a further token follows the "." that ends
\* the program fails and returns no AST: when parse_program has returned a
\* Program, the token after the "." (the lexer's look-ahead) is the end of input.
C21_NothingFollowsTheDotOfAParsedProgram == ParsedProgram => peek(lx).type = "EOF"

\* what the parser does instead: a text is accepted whatever valid token follows
\* its ".", and rejected (by the lexer) only when an invalid character does
C21_TrailingTokenAccepted ==
    /\ ParsedProgram
    /\ peek(lx) = Token("Name", "b")
    /\ ast = Program(Block(<<>>, <<>>, <<>>,
                           Assignment("a", Expression("None", <<Term(<<FactorInt(1)>>, <<>>)>>,
                                                      <<>>))))

(***************************************************************************)
(* C22.  The operator of a comparison.                                     *)
(***************************************************************************)
RelationalOperators == {"=", "#", "<", "<=", ">", ">="}

\* the conditions of the If and While statements in a statement, and in a block
\* with its procedures
RECURSIVE StatementConditions(_)
StatementConditions(stmt) ==
    CASE stmt.k \in {"If", "While"} -> {stmt.cond} \cup StatementConditions(stmt.stmt)
      [] stmt.k = "Begin" ->
            UNION {StatementConditions(stmt.body[i]) : i \in 1..Len(stmt.body)}
      [] OTHER -> {}

RECURSIVE BlockConditions(_)
BlockConditions(block) ==
    StatementConditions(block.stmt)
    \cup UNION {BlockConditions(block.procs[i].block) : i \in 1..Len(block.procs)}

\* C22: between the two expressions of a non-odd condition the parser accepts one
\* of the six relational operators only, so that every ComparisonCondition of an
\* AST parse_program returns carries one of them as its op.
C22_EveryParsedComparisonHasARelationalOperator ==
    ParsedProgram =>
        \A cond \in BlockConditions(ast.block) :
            cond.k = "Comparison" => cond.op \in RelationalOperators

\* what the parser does instead: any token of type Op is taken as the operator,
\* here the ";" of "if a;b then c:=1."
C22_SemicolonAcceptedAsComparison ==
    /\ ParsedProgram
    /\ ast.block.stmt = If(ComparisonCondition(";", ExprV("a"), ExprV("b")),
                           Assignment("c", ExprN(1)))

\* a token that is not of type Op is rejected in that position, and the six
\* relational operators are accepted: the comparisons parsed with another op are
\* those of the texts whose operator is ";", ",", ":=", "(", ")" or "."
C22_OnlyOpTokensAreTakenAsOperator ==
    ParsedProgram =>
        \A cond \in BlockConditions(ast.block) :
            cond.k = "Comparison" =>
                cond.op \in RelationalOperators \cup {";", ",", ":=", "(", ")", "."}

(***************************************************************************)
(* C23.  The leading sign of an expression.                                *)
(***************************************************************************)
\* the three source texts whose assignment starts its expression with "-"
MinusOnePlusTwoText == ProgramTexts[1]
DeclaredMinusOnePlusTwoText == ProgramTexts[2]
MinusOneMinusTwoTimesThreeText == ProgramTexts[3]

\* what "- 1 + 2" and "- 1 - 2 * 3" are to parse to
MinusOnePlusTwo ==
    Expression("-", <<Term(<<FactorInt(1)>>, <<>>), Term(<<FactorInt(2)>>, <<>>)>>, <<"+">>)
MinusOneMinusTwoTimesThree ==
    Expression("-", <<Term(<<FactorInt(1)>>, <<>>),
                      Term(<<FactorInt(2), FactorInt(3)>>, <<"*">>)>>, <<"-">>)

\* the code of the term term alone
TermCode(term) == generate_term(term, [buf |-> <<>>, err |-> "", calls |-> 0]).buf

\* the instructions of buf before index i hold no ADD and no SUB
NoSumBefore(buf, i) == \A j \in 1..(i - 1) : buf[j].op \notin {"add", "sub"}

\* ident is declared in env and holds an integer: a variable that was assigned
Assigned(env, ident) == Declared(env, ident) /\ Denoted(env, ident).vk = "int"

C23_UndeclaredTargetStopsBothExecutors ==
    (ParsedProgram /\ lx.s = MinusOnePlusTwoText) =>
        /\ vm.status # "halted"
        /\ interp.status # "done"

(***************************************************************************)
(* C29.  Parser.check.                                                     *)
(***************************************************************************)
\* this step is a call of check
CheckCalled ==
    /\ Len(calls') = Len(calls) + 1
    /\ calls'[Len(calls')].op = "check"

\* the token the call was made with, what it returned and what it raised
CheckToken == calls'[Len(calls')].value.token
CheckResult == calls'[Len(calls')].value.result
CheckRaised == calls'[Len(calls')].raised

\* the peek token is the token asked for, or both are names
CheckMatches(token) == peek(lx) = token \/ (peek(lx).type = "Name" /\ token.type = "Name")

\* the call took exactly one token: the lexer is where one next() takes it, which
\* returned the token peek() showed, and the token after it is the new peek token
OneTokenConsumed ==
    /\ lx' = next(lx).lx
    /\ next(lx).token = peek(lx)
    /\ lx'.i >= lx.i
    /\ lx'.s = lx.s

\* C29: Parser.check(token) consumes exactly one token and returns true when the
\* peek token equals token, or when both are of kind Name whatever their values;
\* on any other peek token it returns false and leaves the position and the
\* current token of the lexer exactly as they were.
C29_CheckConsumesOneTokenOnAMatchAndNothingOtherwise ==
    [][CheckCalled =>
          IF CheckMatches(CheckToken)
          THEN CheckRaised = "" /\ CheckResult = TRUE /\ OneTokenConsumed
          ELSE CheckRaised = "" /\ CheckResult = FALSE /\ lx' = lx]_vars

\* what holds: a call that returns does as the claim says, and a call raises only
\* on a match, with the error of the next() it makes, when the token behind the
\* matched one is rejected
C29_HoldsOfTheChecksThatReturn ==
    [][CheckCalled =>
          /\ CheckRaised = "" =>
                IF CheckMatches(CheckToken)
                THEN CheckResult = TRUE /\ OneTokenConsumed
                ELSE CheckResult = FALSE /\ lx' = lx
          /\ CheckRaised # "" =>
                /\ CheckMatches(CheckToken)
                /\ CheckRaised = next(lx).lx.err
                /\ lx' = next(lx).lx]_vars

\* check(Name) has returned true on a name other than the one asked for, and the
\* lexer stands on the token behind it
C29_NameTakenWhateverItsValue ==
    /\ calls # <<>>
    /\ calls[Len(calls)].op = "check"
    /\ calls[Len(calls)].raised = ""
    /\ calls[Len(calls)].value = [token |-> Token("Name", ""), result |-> TRUE]
    /\ lx.s = Sources[3]
    /\ peek(lx) = Token("Op", "+")

\* check(Name) on "a ! b": the name matches and the call raises instead of returning
C29_CheckRaisedOnAMatch ==
    /\ calls # <<>>
    /\ lx.s = <<"a", " ", "!", " ", "b">>
    /\ calls[Len(calls)].op = "check"
    /\ calls[Len(calls)].raised # ""
    /\ calls[Len(calls)].value.token = Token("Name", "")

====
